---- MODULE Spec2Model ----
(***************************************************************************)
(* Model of scripts/fuzzing/lib/fuzzer.py: the Fuzzer object that drives   *)
(* one remote libFuzzer binary (start, monitor, stop, repro, analyze) and  *)
(* symbolizes its logs.                                                    *)
(*                                                                         *)
(* A "session" is one Fuzzer object (one invocation of the tool).  All     *)
(* sessions refer to the same fuzz target on the same device, so they      *)
(* share the remote processes and the remote log files; each session has   *)
(* its own Device object and therefore its own cached liveness result.     *)
(***************************************************************************)
EXTENDS Integers, Sequences, FiniteSets, TLC

\* ---------------------------------------------------------------- bounds
\* Number of rotated job logs a fuzzer process may create (fuzz-<j>.log).
MaxJobs == 2
\* Longest stream (in lines) handed to symbolize_log by a direct call.
MaxLines == 3
\* Longest stream a launched process prints on the stream read by
\* start/repro/monitor.
MaxProcLines == 1

Main == "s1"
Other == "s2"
Sessions == {Main, Other}
Jobs == 0 .. (MaxJobs - 1)

VARIABLES
    pc,               \* per session: position inside the current operation
    op,               \* per session: the operation called last
    result,           \* per session: outcome of the operation called last
    foreground,       \* per session: Fuzzer._foreground
    libfuzzer_inputs, \* per session: Fuzzer._libfuzzer_inputs
    last_known_pid,   \* per session: Fuzzer._last_known_pid
    urls,             \* per session: the Device's cached liveness result
    proc,             \* per session: the process handle returned by popen()
    wrote,            \* per session: number of job logs its process has created
    remoteLogs,       \* remote files matching ns.data(LOG_PATTERN)
    ssh,              \* per session: remote commands issued by the current operation
    atCall,           \* per session: was the target running when the operation was called
    exitFirst,        \* per session: its process exited while no remote log existed
    logFirst,         \* per session: a remote log appeared while its process was alive
    logAtFinal,       \* per session: what the listing of fuzzer.py:363 returned
    logEver,          \* per session: a remote log has existed since its launch
    rawLogs,          \* unsymbolized fuzz-<j>.log files in the local output directory
    globbed,          \* per session: monitor's list of local logs still to symbolize
    job_num,          \* per session: monitor's enumerate() index
    symrec,           \* the most recent symbolize_log call: inputs and effects
    logbase,          \* per session: Fuzzer._logbase (0: not yet set)
    outFiles,         \* symbolized logs in the local output directory
    latest,           \* the log that 'fuzz-latest.log' links to
    debug,            \* per session: Fuzzer._debug
    libfuzzer_opts,   \* per session: Fuzzer._libfuzzer_opts
    subprocess_args,  \* per session: Fuzzer._subprocess_args
    dictionary,       \* per session: does dictionary.nspath name a file
    options,          \* per session: Fuzzer._options
    written,          \* per session: symbolized logs written by the current operation
    overwrote,        \* per session: those of them that existed before it wrote them
    cmd,              \* per session: the command the current operation launched
    repro_dump,       \* per session: pid of repro's dump after an unclean exit
    retrieved,        \* per session: raw logs fetched by the current monitor
    symbolized,       \* per session: raw logs symbolized by it, with their job index
    progress,         \* per session: progress marks analyze has echoed
    symprev,          \* the symbolize_log call before the most recent one
    package_path,     \* per session: Fuzzer._package_path
    pkgrec,           \* per session: what the current is_resolved/resolve saw
    cov,              \* the most recent generate_coverage_report call
    gn,               \* BUILD.gn and the most recent add_corpus_to_buildfile call
    stale,            \* the remote logs and the most recent removal by start
    rtdeps            \* the most recent run of verify_runtime_deps.py

vars == <<pc, op, result, foreground, libfuzzer_inputs, last_known_pid, urls,
          proc, wrote, remoteLogs, ssh, atCall, exitFirst, logFirst,
          logAtFinal, logEver, rawLogs, globbed, job_num, symrec, logbase,
          outFiles, latest, debug, libfuzzer_opts, subprocess_args,
          dictionary, options, written, overwrote, cmd, repro_dump,
          retrieved, symbolized, progress, symprev, package_path, pkgrec,
          cov, gn, stale, rtdeps>>

\* What the package, coverage and build file operations change.
toolVars == <<symprev, package_path, pkgrec, cov, gn, stale, rtdeps>>

\* The local output directory and the session's log base.
dirVars == <<logbase, outFiles, latest>>
\* The properties set from the command line.
cfgVars == <<debug, libfuzzer_opts, subprocess_args, dictionary>>

\* ------------------------------------------------------------ log text
\* A line of fuzzer output is a sequence of tokens, as readline() returns it
\* (its last token is the newline).  A file is the concatenation of what
\* was written to it.
Txt == [t |-> "txt", v |-> 0]        \* any other text
Ws == [t |-> "ws", v |-> 0]          \* blanks
Nl == [t |-> "nl", v |-> 0]          \* "\n"
Ms == [t |-> "ms", v |-> 0]          \* "MS: 1 SomeMutation; base unit: foo"
PidTok(n) == [t |-> "pid", v |-> n]  \* "==<n>=="
ArtTok(a) == [t |-> "art", v |-> a]  \* "Test unit written to data/<a>"
SymTok(k) == [t |-> "sym", v |-> k]  \* text produced by the symbolizer

Lines == { <<Txt, Nl>>,
           <<PidTok(1), Txt, Nl>>,
           <<PidTok(0), Txt, Nl>>,
           <<Ms, Txt, Nl>>,
           <<Txt, Ms, Nl>>,
           <<Txt, ArtTok(1), Nl>>,
           <<Txt, ArtTok(2), Nl>> }

\* What buildenv.symbolize may return for a dump: nothing, or some text.
SymTexts == { <<>>, <<SymTok(1), Nl>>, <<SymTok(2), Nl>> }
\* The answers of the first n dump_log + symbolize commands; the answers
\* after the first MaxDumps repeat the last of them.
MaxDumps == 2
SymAnswers(n) == [1 .. (IF n > MaxDumps THEN MaxDumps ELSE n) -> SymTexts]
\* What device.guess_pid may return.
GuessPids == {9}

RECURSIVE SeqsUpTo(_, _)
SeqsUpTo(S, n) ==
    IF n = 0 THEN { <<>> }
    ELSE LET shorter == SeqsUpTo(S, n - 1)
         IN  shorter \cup { Append(q, x) : q \in shorter, x \in S }

Streams == SeqsUpTo(Lines, MaxLines)
ProcStreams == SeqsUpTo({ <<PidTok(1), Txt, Nl>>, <<Ms, Txt, Nl>> }, MaxProcLines)

RECURSIVE Flatten(_)
Flatten(lines) ==
    IF lines = <<>> THEN <<>> ELSE Head(lines) \o Flatten(Tail(lines))

\* str.strip(): drop the blanks and newlines at both ends.
RECURSIVE LStrip(_)
LStrip(text) ==
    IF text # <<>> /\ Head(text).t \in {"ws", "nl"} THEN LStrip(Tail(text))
    ELSE text

RECURSIVE RStrip(_)
RStrip(text) ==
    IF text # <<>> /\ text[Len(text)].t \in {"ws", "nl"}
    THEN RStrip(SubSeq(text, 1, Len(text) - 1))
    ELSE text

Strip(text) == RStrip(LStrip(text))

\* re.compile(r'^==([0-9]+)==').search(line): the set of matched pids.
pid_pattern(line) ==
    IF line # <<>> /\ line[1].t = "pid" THEN {line[1].v} ELSE {}

\* re.compile(r'^MS: [0-9]*').search(line)
mut_pattern(line) == line # <<>> /\ line[1].t = "ms"

\* re.compile(r'Test unit written to (data/\S*)').search(line): the first
\* match anywhere in the line.
art_pattern(line) ==
    LET hits == { i \in 1 .. Len(line) : line[i].t = "art" }
    IN  IF hits = {} THEN {}
        ELSE {line[CHOOSE i \in hits : \A j \in hits : i <= j].v}

\* The number of lines that mut_pattern matches: no call issues more dump
\* commands than that.
Markers(lines) == Cardinality({ i \in 1 .. Len(lines) : mut_pattern(lines[i]) })

\* The local variables of _symbolize_log_impl before the first line.
SymStart(last) ==
    [pid |-> -1, sym |-> [some |-> FALSE, text |-> <<>>], artifacts |-> <<>>,
     out |-> <<>>, writes |-> <<>>, echoed |-> <<>>, dumps |-> <<>>,
     texts |-> <<>>,
     guesses |-> <<>>, last |-> last, nread |-> 0, fetched |-> <<>>]

\* Python's "not sym" for sym in {None} \cup str.
NotSym(sym) == ~sym.some \/ sym.text = <<>>

\* One ns.fetch(self.output, *paths) call, made when `after` lines of the
\* stream had been consumed.
Fetch(paths, after) == [paths |-> paths, after |-> after]

\* The artifact is fetched as soon as its line is read.
ArtifactFetchedAtOnce(st, a) ==
    [st EXCEPT !.fetched = Append(@, Fetch(<<a>>, st.nread))]

\* artifacts.append(art_match.group(1)) (fuzzer.py:458-460).
ArtifactSeen(st, a) == [st EXCEPT !.artifacts = Append(@, a)]

\* One iteration of the loop of _symbolize_log_impl.
SymLine(st, line, answers, guess, echo) ==
    LET pm == pid_pattern(line)
        s1 == IF pm # {}
              THEN [st EXCEPT !.pid = CHOOSE p \in pm : TRUE,
                              !.last = CHOOSE p \in pm : TRUE]
              ELSE st
        needGuess == mut_pattern(line) /\ s1.pid <= 0
        s2 == IF needGuess
              THEN [s1 EXCEPT !.pid = guess, !.guesses = Append(@, guess)]
              ELSE s1
        k == Len(s2.dumps) + 1
        text == answers[IF k > MaxDumps THEN MaxDumps ELSE k]
        s3 == IF mut_pattern(line) /\ NotSym(s2.sym)
              THEN [s2 EXCEPT !.dumps = Append(@, s2.pid),
                              !.texts = Append(@, text),
                              !.sym = [some |-> TRUE, text |-> text],
                              !.out = @ \o text,
                              !.writes = Append(@, text),
                              !.echoed = IF echo THEN Append(@, Strip(text))
                                         ELSE @]
              ELSE s2
        am == art_pattern(line)
        s4 == IF am # {}
              THEN ArtifactSeen(s3, CHOOSE a \in am : TRUE)
              ELSE s3
    IN  [s4 EXCEPT !.out = @ \o line,
                   !.writes = Append(@, line),
                   !.echoed = IF echo THEN Append(@, Strip(line)) ELSE @,
                   !.nread = @ + 1]

\* "return bool(sym)" in place of "return sym != None".
SymFoundTruthy(sym) == ~NotSym(sym)

\* The return value of _symbolize_log_impl (fuzzer.py:467).
SymFound(sym) == sym.some

RECURSIVE SymLoop(_, _, _, _, _)
SymLoop(st, lines, answers, guess, echo) ==
    IF lines = <<>> THEN st
    ELSE SymLoop(SymLine(st, Head(lines), answers, guess, echo), Tail(lines),
                 answers, guess, echo)

\* Fuzzer._symbolize_log_impl: the final locals, with the return value
\* (found) and the ns.fetch calls made (one, after the loop, when there
\* are artifacts: fuzzer.py:464-465).
symbolize_log_impl(fd_in, last, answers, guess, echo) ==
    LET st == SymLoop(SymStart(last), fd_in, answers, guess, echo)
    IN  [out |-> st.out, writes |-> st.writes, echoed |-> st.echoed,
         dumps |-> st.dumps,
         texts |-> st.texts, guesses |-> st.guesses,
         last |-> st.last, artifacts |-> st.artifacts,
         fetched |-> st.fetched \o (IF st.artifacts # <<>>
                                     THEN <<Fetch(st.artifacts, st.nread)>>
                                     ELSE <<>>),
         found |-> SymFound(st.sym)]

\* The record kept of a symbolize_log call.
SymRecord(s, fd_in, job, echo, r) ==
    [called |-> TRUE, session |-> s, fd_in |-> fd_in, job_num |-> job,
     echo |-> echo, out |-> r.out, writes |-> r.writes, echoed |-> r.echoed,
     dumps |-> r.dumps,
     texts |-> r.texts,
     guesses |-> r.guesses, fetched |-> r.fetched, found |-> r.found]

NoSymRecord ==
    [called |-> FALSE, session |-> Main, fd_in |-> <<>>, job_num |-> 0,
     echo |-> FALSE, out |-> <<>>, writes |-> <<>>, echoed |-> <<>>,
     dumps |-> <<>>,
     texts |-> <<>>, guesses |-> <<>>, fetched |-> <<>>, found |-> FALSE]

\* ------------------------------------------------------------ sessions
HostUnit(n) == [at |-> "host", name |-> n]
DataPath(n) == [at |-> "data", name |-> n]
\* Values the caller may give to the libfuzzer_inputs property.
UnitLists == { <<>>, <<HostUnit("crash-1")>> }
\* corpus.nspaths
CorpusPaths == <<DataPath("corpus")>>
\* ns.store(ns.data(), *units): the device paths of the stored units.
Stored(units) == [i \in 1 .. Len(units) |-> DataPath(units[i].name)]

\* ------------------------------------------------------- command line
\* A dict of libFuzzer options is a function from keys to values.
NoOptions == [k \in {} |-> ""]
\* d[k] = v
Put(d, k, v) == [x \in DOMAIN d \cup {k} |-> IF x = k THEN v ELSE d[x]]
\* d.update(e)
Update(d, e) ==
    [x \in DOMAIN d \cup DOMAIN e |-> IF x \in DOMAIN e THEN e[x] ELSE d[x]]

\* str(n) and int(v) for the numbers that occur as option values.
Digits == <<"1", "2", "3", "4", "5", "6", "7", "8", "9">>
Str(n) == Digits[n]
Num(v) == CHOOSE n \in 1 .. Len(Digits) : Digits[n] = v

\* self._options after __init__ (fuzzer.py:81).
InitialOptions == Put(NoOptions, "artifact_prefix", "data/")
\* Fuzzer.DEBUG_OPTIONS, in the order of the source (fuzzer.py:48-50).
DEBUG_OPTIONS ==
    <<"handle_segv", "handle_bus", "handle_ill", "handle_fpe", "handle_abrt">>
\* Values the caller may give to the libfuzzer_opts and subprocess_args
\* properties.
LibfuzzerOpts ==
    { NoOptions, [option2 |-> "foo", option1 |-> "bar", jobs |-> Str(MaxJobs),
                  max_total_time |-> "5"] }
SubprocessArgs == { <<>>, << <<"-", "option1", "=", "bar">> >> }

\* The option keys the model uses, in the order of Python's str.__lt__.
KeyOrder ==
    <<"artifact_prefix", "dict", "handle_abrt", "handle_bus", "handle_fpe",
      "handle_ill", "handle_segv", "jobs", "max_total_time", "option1",
      "option2", "print_coverage">>
Rank(k) == CHOOSE i \in 1 .. Len(KeyOrder) : KeyOrder[i] = k

\* The keys of sorted(d.items()) for the keys in `keys` (fuzzer.py:342).
RECURSIVE sorted_items(_, _)
sorted_items(d, keys) ==
    IF keys = {} THEN <<>>
    ELSE LET m == CHOOSE x \in keys : \A y \in keys : Rank(x) <= Rank(y)
         IN  <<m>> \o sorted_items(d, keys \ {m})

\* A word of a command is the sequence of the pieces it is formatted from.
Word(w) == <<w>>
\* '-{}={}'.format(key, value)
OptionWord(key, value) == <<"-", key, "=", value>>
\* The path of a file under the namespace of the fuzzer on the device.
PathWord(p) == <<p.at, "/", p.name>>
ExecutableUrl == "fuchsia-pkg://fuchsia.com/fake-package1#meta/fake-target1.cmx"

\* The debug options are left out of the command.
debug_options_off(s, o) == o

\* The loop over DEBUG_OPTIONS (fuzzer.py:337-339).
debug_options(s, o) ==
    IF debug[s]
    THEN Update(o, [k \in {DEBUG_OPTIONS[i] : i \in 1 .. Len(DEBUG_OPTIONS)} |-> "0"])
    ELSE o

\* "if not self.foreground: self._options['jobs'] = '1'" (fuzzer.py:335-336).
jobs_option(s, o) == IF ~foreground[s] THEN Put(o, "jobs", "1") ELSE o

\* self._options as _launch leaves it (fuzzer.py:335-340).
launch_options(s) ==
    Update(debug_options(s, jobs_option(s, options[s])), libfuzzer_opts[s])

\* The pass-through arguments are appended without the separator.
passthrough_bare(s) == subprocess_args[s]

\* The end of the command (fuzzer.py:345-347).
passthrough(s) ==
    IF subprocess_args[s] # <<>> THEN <<Word("--")>> \o subprocess_args[s]
    ELSE <<>>

\* fuzz_cmd as _launch builds it (fuzzer.py:341-347).
fuzz_cmd(s) ==
    LET o == launch_options(s)
        keys == sorted_items(o, DOMAIN o)
    IN  <<Word("run"), Word(ExecutableUrl)>>
          \o [i \in 1 .. Len(keys) |-> OptionWord(keys[i], o[keys[i]])]
          \o [i \in 1 .. Len(libfuzzer_inputs[s]) |-> PathWord(libfuzzer_inputs[s][i])]
          \o passthrough(s)

\* The minute the clock shows (datetime.now() cut to '%Y-%m-%d-%H%M'); the
\* log left by an earlier invocation bears an earlier one.
Now == 2
\* The file <output>/fuzz-<base>-<job>.log.
LogFile(base, job) == [base |-> base, job |-> job]
\* The log an earlier invocation left in the output directory.
OldLog == LogFile(1, 0)

\* Fuzzer._package_path before the package is known to be resolved
\* (fuzzer.py:65).
NoPath == "none"
\* What pkgctl pkg-status prints about the package on the device.
OnDiskYes == [disk |-> "yes", path |-> "/pkgfs/versions/deadbeef"]
OnDiskNo == [disk |-> "no", path |-> ""]
NoOutput == [disk |-> "", path |-> ""]
\* Exit code and output of pkgctl pkg-status.  Exit code 2 means "pkg in tuf
\* repo but not on disk" (fuzzer.py:291-292), so it comes with the output
\* of a package that is not on disk (fuzzer_test.py:47-51).
StatusOutcomes ==
    { [code |-> 0, out |-> OnDiskYes], [code |-> 2, out |-> OnDiskNo],
      [code |-> 3, out |-> OnDiskNo], [code |-> 1, out |-> NoOutput] }
NoCommand == <<>>

\* What an operation on the package has seen so far.
NoPkgRecord ==
    [reachable |-> <<>>, path0 |-> NoPath, status |-> <<>>, checks |-> <<>>,
     error |-> [returncode |-> 0, cmd |-> NoCommand]]

\* ------------------------------------------------------ coverage report
\* The directories a caller may pass as input_dirs: at most MaxDirs paths,
\* each of them a directory of the host or not.
MaxDirs == 2
InputDirs ==
    UNION { [1 .. n -> {"corpus-dir", "not-a-dir"}] : n \in 0 .. MaxDirs }
\* What generate_coverage_report depends on: the device's ssh identity and
\* address, the select_variant entry of args.json, the kind of the fuzzer
\* and the arguments of the call.
CoverageInputs ==
    [ssh_identity : BOOLEAN, addr : BOOLEAN,
     select_variant : {"absent", "asan", "profile"}, is_test : BOOLEAN,
     local : BOOLEAN, input_dirs : InputDirs]
NoCoverage ==
    [called |-> FALSE,
     input |-> [ssh_identity |-> FALSE, addr |-> FALSE,
                select_variant |-> "absent", is_test |-> FALSE,
                local |-> FALSE, input_dirs |-> <<>>],
     steps |-> <<>>, realm_label |-> "", result |-> "none",
     message |-> <<>>]

\* -------------------------------------------------------------- BUILD.gn
\* A line of BUILD.gn: whether it contains 'fuzzer("<name>")' of this
\* fuzzer, how many '{' and '}' it has, whether it contains 'corpus =',
\* its leading spaces, its trailing spaces and the rest of its text.
GnLine(text, target, open, close, corpus, indent, trail) ==
    [text |-> text, target |-> target, open |-> open, close |-> close,
     corpus |-> corpus, indent |-> indent, trail |-> trail]
GnComment == GnLine(<<"# No targets here">>, FALSE, 0, 0, FALSE, 0, 0)
GnTarget == GnLine(<<"fuzzer(\"fake-target1\") {">>, TRUE, 1, 0, FALSE, 0, 0)
GnOtherTarget == GnLine(<<"fuzzer(\"fake-target2\") {">>, FALSE, 1, 0, FALSE, 0, 0)
GnSources == GnLine(<<"sources = [ \"fuzzer.cc\" ]">>, FALSE, 0, 0, FALSE, 2, 1)
GnClose == GnLine(<<"}">>, FALSE, 0, 1, FALSE, 0, 0)
\* The declaration of the target of the fuzzer on one line.
GnOneLine ==
    GnLine(<<"fuzzer(\"fake-target1\") { sources = [ \"fuzzer.cc\" ] }">>,
           TRUE, 1, 1, FALSE, 0, 0)
\* '{indent}  corpus = "{corpus_dir}"'
GnCorpus(indent, corpus_dir) ==
    GnLine(<<"corpus = \"">> \o corpus_dir \o <<"\"">>, FALSE, 0, 0, TRUE,
           indent + 2, 0)
GnOldCorpus == GnCorpus(0, <<"//", "corpus/label">>)
GnLines ==
    {GnComment, GnTarget, GnOtherTarget, GnSources, GnClose, GnOldCorpus,
     GnOneLine}
\* The build files: at most MaxGnLines lines, the last one ended by a
\* newline or not.
MaxGnLines == 4
GnFiles ==
    [lines : UNION { [1 .. n -> GnLines] : n \in 0 .. MaxGnLines },
     eol : BOOLEAN]
\* The corpus labels a caller may pass: a path below the directory of
\* BUILD.gn or elsewhere in the source tree.
CorpusLabels ==
    { [below |-> TRUE, rel |-> "relative/path"],
      [below |-> FALSE, rel |-> "corpus/label"] }
\* ------------------------------------------------- verify_runtime_deps.py
\* A path: whether it is written with a leading "./", its last component
\* and how many times ".impl" is appended to it.
Path(dot, base, impl) == [dot |-> dot, base |-> base, impl |-> impl]
\* The lines of the runtime deps file: at most MaxFiles of these paths.
MaxFiles == 2
RuntimePaths ==
    {Path(FALSE, "libfoo.so", 0), Path(TRUE, "libfoo.so", 0),
     Path(FALSE, "libc.so", 0), Path(TRUE, "libc.so", 0)}
RuntimeFiles == UNION { [1 .. n -> RuntimePaths] : n \in 0 .. MaxFiles }
\* The 'source' entries the atoms of a manifest may have.
Sources ==
    {Path(FALSE, "libfoo.so", 0), Path(TRUE, "libfoo.so", 0),
     Path(FALSE, "libfoo.so", 1)}
\* An atom of the SDK manifest.
Atom(id, deps, sources) ==
    [id |-> id, deps |-> deps, files |-> { [source |-> f] : f \in sources }]
\* The manifests: the atom of the library, which may depend on the atom
\* "dep", and an atom "other" it does not depend on.
Manifests ==
    { [ids |-> <<"root">>,
       atoms |-> {Atom("root", ds, rf), Atom("dep", <<>>, df),
                  Atom("other", <<>>, xf)}] :
        ds \in {<<>>, <<"dep">>}, rf \in SUBSET Sources,
        df \in SUBSET Sources, xf \in {{}, {Path(FALSE, "libfoo.so", 0)}} }
\* No run of the verifier yet.  Of a run the model keeps its inputs, its
\* exit status, whether it wrote the stamp and the files it reported.
NoRuntimeDeps ==
    [called |-> FALSE, runtime_files |-> <<>>,
     manifest |-> [ids |-> <<"root">>,
                   atoms |-> {Atom("root", <<>>, {}), Atom("dep", <<>>, {}),
                              Atom("other", <<>>, {})}],
     status |-> 0, stamp |-> FALSE, printed |-> <<>>]

\* No removal of the remote logs yet.  Of the most recent removal by start
\* the model keeps the logs that were there before it (removed), those of
\* them still there (left) and whether a log was created since (fresh).
NoStale == [removed |-> {}, left |-> {}, fresh |-> FALSE]
NoFile == [lines |-> <<>>, eol |-> FALSE]
\* No BUILD.gn yet and no call yet: whether BUILD.gn is a file and what it
\* holds now (after), what it held before the most recent call, whether
\* the label given to that call was generated, whether the call wrote the
\* file, the value it returned and what it echoed, and the corpus directory
\* computed from the label given to that call.
NoBuildfile ==
    [called |-> FALSE, generated |-> FALSE, isfile |-> FALSE, dir |-> <<>>,
     before |-> NoFile, after |-> NoFile, wrote |-> FALSE,
     value |-> FALSE, echoed |-> <<>>]

\* --------------------------------------------------------- symbolize twice
\* No symbolize_log call before the most recent one.  Of such a call the
\* model keeps the log it wrote, the content of that log, and the output
\* directory and the fields of the session as it left them.
NoSymPrevious ==
    [called |-> FALSE, log |-> LogFile(0, 0), content |-> <<>>,
     outFiles |-> {}, latest |-> LogFile(0, 0), logbase |-> 0,
     last_known_pid |-> 0]

Alive(s) == proc[s] = "running"
\* The component is running on the device.
TargetRunning == \E t \in Sessions : Alive(t)
AtRest(s) == pc[s] = "idle"
\* Is session s inside an operation, or has it not yet taken its result?
InCall(s) == pc[s] # "idle"

Init ==
    /\ pc = [s \in Sessions |-> "idle"]
    /\ op = [s \in Sessions |-> "none"]
    /\ result = [s \in Sessions |-> "none"]
    /\ foreground = [s \in Sessions |-> FALSE]
    /\ libfuzzer_inputs = [s \in Sessions |-> <<>>]
    /\ last_known_pid = [s \in Sessions |-> 0]
    /\ urls = [s \in Sessions |-> "unknown"]
    /\ proc = [s \in Sessions |-> "none"]
    /\ wrote = [s \in Sessions |-> 0]
    /\ remoteLogs = {}
    /\ ssh = [s \in Sessions |-> {}]
    /\ atCall = [s \in Sessions |-> FALSE]
    /\ exitFirst = [s \in Sessions |-> FALSE]
    /\ logFirst = [s \in Sessions |-> FALSE]
    /\ logAtFinal = [s \in Sessions |-> FALSE]
    /\ logEver = [s \in Sessions |-> FALSE]
    /\ rawLogs = {}
    /\ globbed = [s \in Sessions |-> <<>>]
    /\ job_num = [s \in Sessions |-> 0]
    /\ symrec = NoSymRecord
    /\ logbase = [s \in Sessions |-> 0]
    /\ outFiles = {OldLog}
    /\ latest = OldLog
    /\ debug = [s \in Sessions |-> FALSE]
    /\ libfuzzer_opts = [s \in Sessions |-> NoOptions]
    /\ subprocess_args = [s \in Sessions |-> <<>>]
    /\ dictionary = [s \in Sessions |-> FALSE]
    /\ options = [s \in Sessions |-> InitialOptions]
    /\ written = [s \in Sessions |-> {}]
    /\ overwrote = [s \in Sessions |-> {}]
    /\ cmd = [s \in Sessions |-> <<>>]
    /\ repro_dump = [s \in Sessions |-> <<>>]
    /\ retrieved = [s \in Sessions |-> {}]
    /\ symbolized = [s \in Sessions |-> <<>>]
    /\ progress = [s \in Sessions |-> 0]
    /\ symprev = NoSymPrevious
    /\ package_path = [s \in Sessions |-> NoPath]
    /\ pkgrec = [s \in Sessions |-> NoPkgRecord]
    /\ cov = NoCoverage
    /\ gn = NoBuildfile
    /\ stale = NoStale
    /\ rtdeps = NoRuntimeDeps

\* Device.v1_component_is_running(url, refresh): the cached answer, which is
\* replaced by a fresh query when refresh is set or nothing is cached yet.
v1_component_is_running(s, refresh) ==
    IF refresh \/ urls[s] = "unknown"
    THEN (IF TargetRunning THEN "yes" ELSE "no")
    ELSE urls[s]

\* is_running with the refresh argument dropped on the way to the device.
is_running_cached(s, refresh) == v1_component_is_running(s, FALSE)

\* Fuzzer.is_running(refresh): the value returned; the cache afterwards is
\* the same value.
is_running(s, refresh) == v1_component_is_running(s, refresh)

\* The start of every public operation.
Call(s, name) ==
    /\ AtRest(s)
    /\ op' = [op EXCEPT ![s] = name]
    /\ atCall' = [atCall EXCEPT ![s] = TargetRunning]

\* Fuzzer.require_stopped, followed by `next` when it does not raise.
require_stopped(s, next) ==
    /\ urls' = [urls EXCEPT ![s] = is_running(s, TRUE)]
    /\ ssh' = [ssh EXCEPT ![s] = {"cs"}]
    /\ IF is_running(s, TRUE) = "yes"
       THEN /\ result' = [result EXCEPT ![s] = "is running and must be stopped first"]
            /\ pc' = [pc EXCEPT ![s] = "done"]
       ELSE /\ result' = [result EXCEPT ![s] = "none"]
            /\ pc' = [pc EXCEPT ![s] = next]

\* The libfuzzer_inputs and foreground setters (Fuzzer.update).
set_libfuzzer_inputs(s) ==
    /\ AtRest(s)
    /\ \E u \in UnitLists : libfuzzer_inputs' = [libfuzzer_inputs EXCEPT ![s] = u]
    /\ UNCHANGED <<pc, op, result, foreground, last_known_pid, urls, proc,
                   wrote, remoteLogs, ssh, atCall, exitFirst, logFirst,
                   logAtFinal, logEver, rawLogs, globbed, job_num, symrec, dirVars, cfgVars,
                   options, written, overwrote, cmd, repro_dump, retrieved,
                   symbolized,
                   progress, toolVars>>

set_foreground(s) ==
    /\ AtRest(s)
    /\ \E f \in BOOLEAN : foreground' = [foreground EXCEPT ![s] = f]
    /\ UNCHANGED <<pc, op, result, libfuzzer_inputs, last_known_pid, urls,
                   proc, wrote, remoteLogs, ssh, atCall, exitFirst, logFirst,
                   logAtFinal, logEver, rawLogs, globbed, job_num, symrec, dirVars, cfgVars,
                   options, written, overwrote, cmd, repro_dump, retrieved,
                   symbolized,
                   progress, toolVars>>

\* The debug, libfuzzer_opts and subprocess_args setters.
set_debug(s) ==
    /\ AtRest(s)
    /\ \E d \in BOOLEAN : debug' = [debug EXCEPT ![s] = d]
    /\ UNCHANGED <<pc, op, result, foreground, libfuzzer_inputs,
                   last_known_pid, urls, proc, wrote, remoteLogs, ssh, atCall,
                   exitFirst, logFirst, logAtFinal, logEver, rawLogs, globbed,
                   job_num, symrec, dirVars, libfuzzer_opts, subprocess_args,
                   dictionary, options, written, overwrote, cmd, repro_dump,
                   retrieved, symbolized,
                   progress, toolVars>>

set_libfuzzer_opts(s) ==
    /\ AtRest(s)
    /\ \E o \in LibfuzzerOpts : libfuzzer_opts' = [libfuzzer_opts EXCEPT ![s] = o]
    /\ UNCHANGED <<pc, op, result, foreground, libfuzzer_inputs,
                   last_known_pid, urls, proc, wrote, remoteLogs, ssh, atCall,
                   exitFirst, logFirst, logAtFinal, logEver, rawLogs, globbed,
                   job_num, symrec, dirVars, debug, subprocess_args,
                   dictionary, options, written, overwrote, cmd, repro_dump,
                   retrieved, symbolized,
                   progress, toolVars>>

set_subprocess_args(s) ==
    /\ AtRest(s)
    /\ \E a \in SubprocessArgs :
          subprocess_args' = [subprocess_args EXCEPT ![s] = a]
    /\ UNCHANGED <<pc, op, result, foreground, libfuzzer_inputs,
                   last_known_pid, urls, proc, wrote, remoteLogs, ssh, atCall,
                   exitFirst, logFirst, logAtFinal, logEver, rawLogs, globbed,
                   job_num, symrec, dirVars, debug, libfuzzer_opts,
                   dictionary, options, written, overwrote, cmd, repro_dump,
                   retrieved, symbolized,
                   progress, toolVars>>

\* The fuzzer's dictionary is put on the device (or taken away), so that
\* dictionary.nspath names it (or is None).
set_dictionary(s) ==
    /\ AtRest(s)
    /\ \E d \in BOOLEAN : dictionary' = [dictionary EXCEPT ![s] = d]
    /\ UNCHANGED <<pc, op, result, foreground, libfuzzer_inputs,
                   last_known_pid, urls, proc, wrote, remoteLogs, ssh, atCall,
                   exitFirst, logFirst, logAtFinal, logEver, rawLogs, globbed,
                   job_num, symrec, dirVars, debug, libfuzzer_opts,
                   subprocess_args, options, written, overwrote, cmd,
                   repro_dump, retrieved, symbolized,
                   progress, toolVars>>

\* Fuzzer.start up to and including require_stopped (fuzzer.py:395).
start(s) ==
    /\ Call(s, "start")
    /\ require_stopped(s, "start_remove")
    /\ UNCHANGED <<foreground, libfuzzer_inputs, last_known_pid, proc, wrote,
                   remoteLogs, exitFirst, logFirst, logAtFinal, logEver, rawLogs,
                   globbed, job_num, symrec, dirVars, cfgVars,
                   options, written, overwrote, cmd, repro_dump, retrieved,
                   symbolized,
                   progress, toolVars>>

\* analyze leaves the options as they are.
analyze_options_none(o) == o

\* The options analyze sets before it starts the fuzzer (fuzzer.py:534-535).
analyze_options(o) == Put(Put(o, "max_total_time", "60"), "print_coverage", "1")

\* Fuzzer.analyze up to and including the require_stopped of start
\* (fuzzer.py:534-537, 395).
analyze(s) ==
    /\ Call(s, "analyze")
    /\ options' = [options EXCEPT ![s] = analyze_options(@)]
    /\ foreground' = [foreground EXCEPT ![s] = FALSE]
    /\ require_stopped(s, "start_remove")
    /\ UNCHANGED <<libfuzzer_inputs, last_known_pid, proc, wrote, remoteLogs,
                   exitFirst, logFirst, logAtFinal, logEver, rawLogs, globbed, job_num,
                   symrec, dirVars, cfgVars,
                   written, overwrote, cmd, repro_dump, retrieved, symbolized,
                   progress, toolVars>>

\* The remote logs are left where they are.
remove_skipped(logs) == logs

\* "self.ns.remove(logs)" (fuzzer.py:406): what is left of the remote logs.
remove(logs) == {}

\* Fuzzer.start: the dictionary option, the corpus inputs and the removal
\* of the remote logs (fuzzer.py:397-406).
StartRemove(s) ==
    /\ pc[s] = "start_remove"
    /\ options' = [options EXCEPT ![s] =
                     IF dictionary[s] THEN Put(@, "dict", "pkg/data/fake-target1/dictionary")
                     ELSE @]
    /\ libfuzzer_inputs' = [libfuzzer_inputs EXCEPT ![s] = CorpusPaths]
    /\ remoteLogs' = remove(remoteLogs)
    /\ stale' = [removed |-> remoteLogs, left |-> remove(remoteLogs),
                 fresh |-> FALSE]
    /\ ssh' = [ssh EXCEPT ![s] = @ \cup {"rm"}]
    /\ pc' = [pc EXCEPT ![s] = "launch"]
    /\ UNCHANGED <<op, result, foreground, last_known_pid, urls, proc, wrote,
                   atCall, exitFirst, logFirst, logAtFinal, logEver, rawLogs, globbed,
                   job_num, symrec, dirVars, cfgVars,
                   written, overwrote, cmd, repro_dump, retrieved, symbolized,
                   progress, symprev, package_path, pkgrec, cov, gn,
                   rtdeps>>

\* The list of units is never taken as empty.
no_units_never(units) == FALSE

\* "if not self._libfuzzer_inputs:" (fuzzer.py:506).
no_units(units) == units = <<>>

\* Fuzzer.repro up to and including require_stopped (fuzzer.py:505-509).
repro(s) ==
    /\ Call(s, "repro")
    /\ IF no_units(libfuzzer_inputs[s])
       THEN /\ result' = [result EXCEPT ![s] = "No units provided."]
            /\ pc' = [pc EXCEPT ![s] = "done"]
            /\ ssh' = [ssh EXCEPT ![s] = {}]
            /\ urls' = urls
       ELSE require_stopped(s, "repro_store")
    /\ UNCHANGED <<foreground, libfuzzer_inputs, last_known_pid, proc, wrote,
                   remoteLogs, exitFirst, logFirst, logAtFinal, logEver, rawLogs,
                   globbed, job_num, symrec, dirVars, cfgVars,
                   options, written, overwrote, cmd, repro_dump, retrieved,
                   symbolized,
                   progress, toolVars>>

\* Fuzzer.repro: store the units on the device and force the foreground
\* (fuzzer.py:510-514).
ReproStore(s) ==
    /\ pc[s] = "repro_store"
    /\ libfuzzer_inputs' = [libfuzzer_inputs EXCEPT ![s] = Stored(@)]
    /\ foreground' = [foreground EXCEPT ![s] = TRUE]
    /\ ssh' = [ssh EXCEPT ![s] = @ \cup {"store"}]
    /\ pc' = [pc EXCEPT ![s] = "launch"]
    /\ UNCHANGED <<op, result, last_known_pid, urls, proc, wrote, remoteLogs,
                   atCall, exitFirst, logFirst, logAtFinal, logEver, rawLogs, globbed,
                   job_num, symrec, dirVars, cfgVars,
                   options, written, overwrote, cmd, repro_dump, retrieved,
                   symbolized,
                   progress, toolVars>>

\* The launch leaves the last known pid as it is.
reset_pid_skipped(s) == last_known_pid[s]

\* "self._last_known_pid = 0" (fuzzer.py:354).
reset_pid(s) == 0

\* Fuzzer._launch up to popen (fuzzer.py:335-357).
launch(s) ==
    /\ pc[s] = "launch"
    /\ last_known_pid' = [last_known_pid EXCEPT ![s] = reset_pid(s)]
    /\ proc' = [proc EXCEPT ![s] = "running"]
    /\ wrote' = [wrote EXCEPT ![s] = 0]
    /\ exitFirst' = [exitFirst EXCEPT ![s] = FALSE]
    /\ logFirst' = [logFirst EXCEPT ![s] = FALSE]
    /\ logAtFinal' = [logAtFinal EXCEPT ![s] = FALSE]
    /\ logEver' = [logEver EXCEPT ![s] = remoteLogs # {}]
    /\ ssh' = [ssh EXCEPT ![s] = @ \cup {"run"}]
    /\ options' = [options EXCEPT ![s] = launch_options(s)]
    /\ cmd' = [cmd EXCEPT ![s] = fuzz_cmd(s)]
    /\ pc' = [pc EXCEPT ![s] =
                IF foreground[s]
                THEN (IF op[s] = "repro" THEN "repro_symbolize" ELSE "fg_symbolize")
                ELSE "bg_poll"]
    /\ UNCHANGED <<op, result, foreground, libfuzzer_inputs, urls, remoteLogs,
                   atCall, rawLogs, globbed, job_num, symrec, dirVars, cfgVars,
                   written, overwrote, repro_dump, retrieved, symbolized,
                   progress, toolVars>>

\* Fuzzer._launch: proc.poll() in the condition of the wait loop
\* (fuzzer.py:361).
BgPoll(s) ==
    /\ pc[s] = "bg_poll"
    /\ pc' = [pc EXCEPT ![s] = IF Alive(s) THEN "bg_ls" ELSE "bg_final"]
    /\ UNCHANGED <<op, result, foreground, libfuzzer_inputs, last_known_pid,
                   urls, proc, wrote, remoteLogs, ssh, atCall, exitFirst,
                   logFirst, logAtFinal, logEver, rawLogs, globbed, job_num, symrec, dirVars, cfgVars,
                   options, written, overwrote, cmd, repro_dump, retrieved,
                   symbolized,
                   progress, toolVars>>

\* Fuzzer._launch: ns.ls(logs) in the condition of the wait loop, and the
\* sleep when nothing is listed (fuzzer.py:361-362).
BgLs(s) ==
    /\ pc[s] = "bg_ls"
    /\ ssh' = [ssh EXCEPT ![s] = @ \cup {"ls"}]
    /\ pc' = [pc EXCEPT ![s] = IF remoteLogs # {} THEN "bg_final" ELSE "bg_poll"]
    /\ UNCHANGED <<op, result, foreground, libfuzzer_inputs, last_known_pid,
                   urls, proc, wrote, remoteLogs, atCall, exitFirst, logFirst,
                   logAtFinal, logEver, rawLogs, globbed, job_num, symrec, dirVars, cfgVars,
                   options, written, overwrote, cmd, repro_dump, retrieved,
                   symbolized,
                   progress, toolVars>>

\* The launch never reports a failure.
NeverFailedToStart(s) == FALSE

\* The launch reports a failure whenever the process has exited.
FailedIfExited(s) == ~Alive(s)

\* Does the listing after the wait loop find nothing (fuzzer.py:363)?
FailedToStart(s) == remoteLogs = {}

\* Fuzzer._launch: the listing after the wait loop and the return of a
\* background launch (fuzzer.py:363-365, 410-414, 537-539).
BgFinal(s) ==
    /\ pc[s] = "bg_final"
    /\ ssh' = [ssh EXCEPT ![s] = @ \cup {"ls"}]
    /\ logAtFinal' = [logAtFinal EXCEPT ![s] = remoteLogs # {}]
    /\ IF FailedToStart(s)
       THEN /\ result' = [result EXCEPT ![s] = "failed to start"]
            /\ pc' = [pc EXCEPT ![s] = "done"]
       ELSE IF op[s] = "analyze"
            THEN /\ result' = result
                 /\ pc' = [pc EXCEPT ![s] = "analyze_progress"]
            ELSE /\ result' = [result EXCEPT ![s] = "ok"]
                 /\ pc' = [pc EXCEPT ![s] = "done"]
    /\ UNCHANGED <<op, foreground, libfuzzer_inputs, last_known_pid, urls,
                   proc, wrote, remoteLogs, atCall, exitFirst, logFirst,
                   rawLogs, globbed, job_num, symrec, logEver, dirVars, cfgVars,
                   options, written, overwrote, cmd, repro_dump, retrieved,
                   symbolized,
                   progress, toolVars>>

\* logfile names every log of the session after job 0.
logfile_job0(s, job) ==
    LogFile(IF logbase[s] = 0 THEN Now ELSE logbase[s], 0)

\* Fuzzer.logfile(job_num): the log base is the time of the first call
\* (fuzzer.py:367-373).
logfile(s, job) ==
    LogFile(IF logbase[s] = 0 THEN Now ELSE logbase[s], job)

\* The remote commands a symbolize_log call issues.
SymCommands(r) ==
    (IF r.dumps # <<>> THEN {"dump"} ELSE {})
        \cup (IF r.guesses # <<>> THEN {"guess"} ELSE {})
        \cup (IF r.fetched # <<>> THEN {"scp"} ELSE {})

\* Fuzzer.symbolize_log(fd_in, job, echo) and its effects on the session
\* and on the output directory: the log is opened for writing, filled by
\* _symbolize_log_impl and linked as fuzz-latest.log (fuzzer.py:427-432).
symbolize_log_with(s, fd_in, job, echo, answers, guess) ==
        LET r == symbolize_log_impl(fd_in, last_known_pid[s], answers, guess, echo)
            filename_out == logfile(s, job)
        IN  /\ symrec' = SymRecord(s, fd_in, job, echo, r)
            /\ last_known_pid' = [last_known_pid EXCEPT ![s] = r.last]
            /\ ssh' = [ssh EXCEPT ![s] = @ \cup SymCommands(r)]
            /\ logbase' = [logbase EXCEPT ![s] = filename_out.base]
            /\ outFiles' = outFiles \cup {filename_out}
            /\ latest' = filename_out
            /\ written' = [written EXCEPT ![s] = @ \cup {filename_out}]
            /\ overwrote' = [overwrote EXCEPT ![s] =
                                @ \cup (IF filename_out \in outFiles
                                           /\ filename_out \notin written[s]
                                        THEN {filename_out} ELSE {})]

\* symbolize_log with any answers of the symbolizer and of guess_pid.
symbolize_log(s, fd_in, job, echo) ==
    \E answers \in SymAnswers(Markers(fd_in)), guess \in GuessPids :
        symbolize_log_with(s, fd_in, job, echo, answers, guess)

\* The log is opened for appending.
open_a(old, text) == old \o text

\* self.host.open(filename_out, 'w'): what the file holds when `text` was
\* written to it, whatever it held before (fuzzer.py:428).
open_w(old, text) == text

\* wait() returns at once.
wait_skipped(s) == TRUE

\* proc.wait() returns when the process has ended (fuzzer.py:413, 545).
wait(s) == ~Alive(s)

\* Fuzzer.start in the foreground: symbolize the error stream of the
\* process up to its end, then wait (fuzzer.py:411-414).  readline returns
\* '' only when the process has closed the stream, so the call ends after
\* the process; the lines are taken here as one stream at that moment.
FgSymbolize(s) ==
    /\ pc[s] = "fg_symbolize"
    /\ wait(s)
    /\ \E fd_in \in ProcStreams : symbolize_log(s, fd_in, 0, TRUE)
    /\ result' = [result EXCEPT ![s] = "ok"]
    /\ pc' = [pc EXCEPT ![s] = "done"]
    /\ UNCHANGED <<op, foreground, libfuzzer_inputs, urls, proc, wrote,
                   remoteLogs, atCall, exitFirst, logFirst, logAtFinal, logEver,
                   rawLogs, globbed, job_num, cfgVars, options, cmd,
                   repro_dump, retrieved, symbolized,
                   progress, toolVars>>

\* Fuzzer.repro: symbolize the error stream, wait for the process
\* (fuzzer.py:516-518).
ReproSymbolize(s) ==
    /\ pc[s] = "repro_symbolize"
    /\ ~Alive(s)
    /\ \E fd_in \in ProcStreams : symbolize_log(s, fd_in, 0, TRUE)
    /\ IF proc[s] = "exit0"
       THEN /\ result' = [result EXCEPT ![s] = "ok"]
            /\ pc' = [pc EXCEPT ![s] = "done"]
       ELSE /\ result' = result
            /\ pc' = [pc EXCEPT ![s] = "repro_dump"]
    /\ UNCHANGED <<op, foreground, libfuzzer_inputs, urls, proc, wrote,
                   remoteLogs, atCall, exitFirst, logFirst, logAtFinal, logEver,
                   rawLogs, globbed, job_num, cfgVars, options, cmd,
                   repro_dump, retrieved, symbolized,
                   progress, toolVars>>

\* The dump is always taken from a guessed pid.
fallback_pid_guessed(s, guess) == guess

\* The pid whose log repro dumps (fuzzer.py:523-525).
fallback_pid(s, guess) ==
    IF last_known_pid[s] <= 0 THEN guess ELSE last_known_pid[s]

\* Fuzzer.repro: the stack trace fetched after an unclean exit, symbolized
\* and echoed (fuzzer.py:523-528).
ReproDump(s) ==
    /\ pc[s] = "repro_dump"
    /\ \E guess \in GuessPids :
          repro_dump' = [repro_dump EXCEPT ![s] = <<fallback_pid(s, guess)>>]
    /\ ssh' = [ssh EXCEPT ![s] =
                 @ \cup {"dump"} \cup (IF last_known_pid[s] <= 0 THEN {"guess"} ELSE {})]
    /\ result' = [result EXCEPT ![s] = "ok"]
    /\ pc' = [pc EXCEPT ![s] = "done"]
    /\ UNCHANGED <<op, foreground, libfuzzer_inputs, last_known_pid, urls,
                   proc, wrote, remoteLogs, atCall, exitFirst, logFirst,
                   logAtFinal, logEver, rawLogs, globbed, job_num, symrec, dirVars, cfgVars,
                   options, written, overwrote, cmd, retrieved, symbolized,
                   progress, toolVars>>

\* range(79): the marks of the progress bar (fuzzer.py:541).
ProgressSteps == 79

\* Fuzzer.analyze: the progress bar, one mark and one sleep for each of
\* the ProgressSteps rounds (fuzzer.py:539-544).
AnalyzeProgress(s) ==
    /\ pc[s] = "analyze_progress"
    /\ pc' = [pc EXCEPT ![s] = "analyze_wait"]
    /\ progress' = [progress EXCEPT ![s] = ProgressSteps]
    /\ UNCHANGED <<op, result, foreground, libfuzzer_inputs, last_known_pid,
                   urls, proc, wrote, remoteLogs, ssh, atCall, exitFirst,
                   logFirst, logAtFinal, logEver, rawLogs, globbed, job_num, symrec, dirVars, cfgVars,
                   options, written, overwrote, cmd, repro_dump, retrieved,
                   symbolized,
                   toolVars>>

\* Fuzzer.analyze: proc.wait() and the call of monitor (fuzzer.py:545-546).
AnalyzeWait(s) ==
    /\ pc[s] = "analyze_wait"
    /\ wait(s)
    /\ pc' = [pc EXCEPT ![s] = "monitor_poll"]
    /\ UNCHANGED <<op, result, foreground, libfuzzer_inputs, last_known_pid,
                   urls, proc, wrote, remoteLogs, ssh, atCall, exitFirst,
                   logFirst, logAtFinal, logEver, rawLogs, globbed, job_num, symrec, dirVars, cfgVars,
                   options, written, overwrote, cmd, repro_dump, retrieved,
                   symbolized,
                   progress, toolVars>>

\* Fuzzer.monitor, called by the user.
monitor(s) ==
    /\ Call(s, "monitor")
    /\ result' = [result EXCEPT ![s] = "none"]
    /\ ssh' = [ssh EXCEPT ![s] = {}]
    /\ pc' = [pc EXCEPT ![s] = "monitor_poll"]
    /\ UNCHANGED <<foreground, libfuzzer_inputs, last_known_pid, urls, proc,
                   wrote, remoteLogs, exitFirst, logFirst, logAtFinal, logEver,
                   rawLogs, globbed, job_num, symrec, dirVars, cfgVars,
                   options, written, overwrote, cmd, repro_dump, retrieved,
                   symbolized,
                   progress, toolVars>>

\* Fuzzer.monitor: one liveness probe of the wait loop (fuzzer.py:476-477).
MonitorPoll(s) ==
    /\ pc[s] = "monitor_poll"
    /\ urls' = [urls EXCEPT ![s] = is_running(s, TRUE)]
    /\ ssh' = [ssh EXCEPT ![s] = @ \cup {"cs"}]
    /\ pc' = [pc EXCEPT ![s] =
                IF is_running(s, TRUE) = "yes" THEN "monitor_poll" ELSE "monitor_fetch"]
    /\ UNCHANGED <<op, result, foreground, libfuzzer_inputs, last_known_pid,
                   proc, wrote, remoteLogs, atCall, exitFirst, logFirst,
                   logAtFinal, logEver, rawLogs, globbed, job_num, symrec, dirVars, cfgVars,
                   options, written, overwrote, cmd, repro_dump, retrieved,
                   symbolized,
                   progress, toolVars>>

\* Fuzzer.monitor: fetch the remote logs (fuzzer.py:479-480).
MonitorFetch(s) ==
    /\ pc[s] = "monitor_fetch"
    /\ rawLogs' = rawLogs \cup remoteLogs
    /\ retrieved' = [retrieved EXCEPT ![s] = remoteLogs]
    /\ ssh' = [ssh EXCEPT ![s] = @ \cup {"scp"}]
    /\ pc' = [pc EXCEPT ![s] = "monitor_remove"]
    /\ UNCHANGED <<op, result, foreground, libfuzzer_inputs, last_known_pid,
                   urls, proc, wrote, remoteLogs, atCall, exitFirst, logFirst,
                   logAtFinal, logEver, globbed, job_num, symrec, dirVars, cfgVars,
                   options, written, overwrote, cmd, repro_dump, symbolized,
                   progress, toolVars>>

\* The sorted list of the members of a set of job numbers.
RECURSIVE Sorted(_)
Sorted(S) ==
    IF S = {} THEN <<>>
    ELSE LET m == CHOOSE x \in S : \A y \in S : x <= y
         IN  <<m>> \o Sorted(S \ {m})

\* Fuzzer.monitor: remove the remote logs and list the local ones
\* (fuzzer.py:481-483).
MonitorRemove(s) ==
    /\ pc[s] = "monitor_remove"
    /\ remoteLogs' = {}
    /\ ssh' = [ssh EXCEPT ![s] = @ \cup {"rm"}]
    /\ globbed' = [globbed EXCEPT ![s] = Sorted(rawLogs)]
    /\ job_num' = [job_num EXCEPT ![s] = 0]
    /\ pc' = [pc EXCEPT ![s] = "monitor_symbolize"]
    /\ UNCHANGED <<op, result, foreground, libfuzzer_inputs, last_known_pid,
                   urls, proc, wrote, atCall, exitFirst, logFirst, logAtFinal, logEver,
                   rawLogs, symrec, dirVars, cfgVars,
                   options, written, overwrote, cmd, repro_dump, retrieved,
                   symbolized,
                   progress, toolVars>>

\* The local copy is left in the output directory.
LocalLogKept(s) == rawLogs

\* host.remove(log) (fuzzer.py:487).
LocalLogRemoved(s) == rawLogs \ {Head(globbed[s])}

\* Fuzzer.monitor: one iteration of the loop over the local logs, or its end
\* (fuzzer.py:484-487).
MonitorSymbolize(s) ==
    /\ pc[s] = "monitor_symbolize"
    /\ IF globbed[s] = <<>>
       THEN /\ result' = [result EXCEPT ![s] = "ok"]
            /\ pc' = [pc EXCEPT ![s] = "done"]
            /\ UNCHANGED <<last_known_pid, ssh, rawLogs, globbed, job_num,
                           symrec, dirVars, written, overwrote, symbolized>>
       ELSE /\ \E fd_in \in ProcStreams : symbolize_log(s, fd_in, job_num[s], FALSE)
            /\ symbolized' = [symbolized EXCEPT ![s] =
                                 Append(@, [log |-> Head(globbed[s]),
                                            job |-> job_num[s]])]
            /\ rawLogs' = LocalLogRemoved(s)
            /\ globbed' = [globbed EXCEPT ![s] = Tail(@)]
            /\ job_num' = [job_num EXCEPT ![s] = @ + 1]
            /\ UNCHANGED <<result, pc>>
    /\ UNCHANGED <<op, foreground, libfuzzer_inputs, urls, proc, wrote,
                   remoteLogs, atCall, exitFirst, logFirst, logAtFinal,
                   logEver, cfgVars, options, cmd, repro_dump, retrieved,
                   progress, toolVars>>

\* The refresh argument of the is_running call of Fuzzer.stop
\* (fuzzer.py:491: none is given, and the default is False).
StopRefresh == FALSE

\* Fuzzer.stop (fuzzer.py:489-492).  killall ends every process of the
\* target; its exit status when there is no such process is the device's
\* business, and check_call raises when it is not zero.
stop(s) ==
    /\ Call(s, "stop")
    /\ urls' = [urls EXCEPT ![s] = is_running(s, StopRefresh)]
    /\ IF is_running(s, StopRefresh) = "yes"
       THEN /\ ssh' = [ssh EXCEPT ![s] = {"killall"}]
            /\ proc' = [t \in Sessions |-> IF Alive(t) THEN "killed" ELSE proc[t]]
            /\ exitFirst' = [t \in Sessions |->
                               IF Alive(t) /\ InCall(t) THEN remoteLogs = {}
                               ELSE exitFirst[t]]
            /\ \/ result' = [result EXCEPT ![s] = "ok"]
               \/ /\ ~TargetRunning
                  /\ result' = [result EXCEPT ![s] = "command failed"]
       ELSE /\ ssh' = [ssh EXCEPT ![s] = {}]
            /\ result' = [result EXCEPT ![s] = "ok"]
            /\ UNCHANGED <<proc, exitFirst, logEver>>
    /\ pc' = [pc EXCEPT ![s] = "done"]
    /\ UNCHANGED <<foreground, libfuzzer_inputs, last_known_pid, wrote,
                   remoteLogs, logFirst, logAtFinal, logEver, rawLogs, globbed,
                   job_num, symrec, dirVars, cfgVars,
                   options, written, overwrote, cmd, repro_dump, retrieved,
                   symbolized,
                   progress, toolVars>>

\* Fuzzer.is_running called by the user, with or without refresh
\* (fuzzer.py:319-325).
check(s) ==
    /\ Call(s, "is_running")
    /\ \E refresh \in BOOLEAN :
          /\ urls' = [urls EXCEPT ![s] = is_running(s, refresh)]
          /\ result' = [result EXCEPT ![s] = is_running(s, refresh)]
    /\ ssh' = [ssh EXCEPT ![s] = {}]
    /\ pc' = [pc EXCEPT ![s] = "done"]
    /\ UNCHANGED <<foreground, libfuzzer_inputs, last_known_pid, proc, wrote,
                   remoteLogs, exitFirst, logFirst, logAtFinal, logEver, rawLogs,
                   globbed, job_num, symrec, dirVars, cfgVars,
                   options, written, overwrote, cmd, repro_dump, retrieved,
                   symbolized,
                   progress, toolVars>>

\* Fuzzer.symbolize_log called by the user on a stream of its own
\* (fuzzer.py:416-432).
SymbolizeLogCall(s) ==
    /\ Call(s, "symbolize_log")
    /\ ~symrec.called
    /\ \E fd_in \in Streams, job \in Jobs, echo \in BOOLEAN :
          symbolize_log(s, fd_in, job, echo)
    /\ result' = [result EXCEPT ![s] = "ok"]
    /\ pc' = [pc EXCEPT ![s] = "done"]
    /\ UNCHANGED <<foreground, libfuzzer_inputs, urls, proc, wrote,
                   remoteLogs, exitFirst, logFirst, logAtFinal, logEver, rawLogs,
                   globbed, job_num, cfgVars, options, cmd,
                   repro_dump, retrieved, symbolized,
                   progress, toolVars>>

\* ------------------------------------------------------------ the package
PackageUrl == "fuchsia-pkg://fuchsia.com/fake-package1"
Package == "fake-package1"
StatusCommand == <<"pkgctl", "pkg-status", PackageUrl>>
ResolveCommand == <<"pkgctl", "resolve", PackageUrl>>

\* No exit code of pkg-status is taken as an error.
status_never_error(code) == FALSE

\* Only exit code 0 is taken as a success of pkg-status.
status_is_error_strict(code) == code # 0

\* "if p.returncode not in (0, 2): raise" (fuzzer.py:293).
status_is_error(code) == code \notin {0, 2}

\* re.search(r'Package on disk: yes \(path=(.*)\)', str(out)) and its
\* group(1) (fuzzer.py:296-299).
Match(out) == out.disk = "yes"
Group1(out) == out.path

\* Fuzzer.is_resolved (fuzzer.py:272-300) for a session whose package path
\* is `path`, on a device that is reachable or not, that has the component
\* manifest in its base packages or not, and whose pkg-status ends as st:
\* the value returned or the error raised, the package path afterwards,
\* the commands sent to the device and the outcome of pkg-status if it ran.
is_resolved(path, reachable, base, st) ==
    IF ~reachable
    THEN [value |-> "false", path |-> path, cmds |-> {}, status |-> <<>>]
    ELSE IF path # NoPath
    THEN [value |-> "true", path |-> path, cmds |-> {}, status |-> <<>>]
    ELSE IF base
    THEN [value |-> "true", path |-> "/pkgfs/packages/fake-package1/0",
          cmds |-> {"isfile"}, status |-> <<>>]
    ELSE IF status_is_error(st.code)
    THEN [value |-> "CalledProcessError", path |-> path,
          cmds |-> {"isfile", "pkg-status"}, status |-> <<st>>]
    ELSE IF ~Match(st.out)
    THEN [value |-> "false", path |-> path,
          cmds |-> {"isfile", "pkg-status"}, status |-> <<st>>]
    ELSE [value |-> "true", path |-> Group1(st.out),
          cmds |-> {"isfile", "pkg-status"}, status |-> <<st>>]

\* One call of is_resolved by session s and what the session keeps of it.
IsResolved(s, reachable, base, st, r) ==
    /\ r = is_resolved(package_path[s], reachable, base, st)
    /\ package_path' = [package_path EXCEPT ![s] = r.path]
    /\ ssh' = [ssh EXCEPT ![s] = @ \cup r.cmds]
    /\ pkgrec' = [pkgrec EXCEPT ![s] =
                    [reachable |-> Append(@.reachable, reachable),
                     path0 |-> IF @.checks = <<>> THEN package_path[s] ELSE @.path0,
                     status |-> @.status \o r.status,
                     checks |-> Append(@.checks, r.value),
                     error |-> IF r.value = "CalledProcessError"
                               THEN [returncode |-> st.code, cmd |-> StatusCommand]
                               ELSE @.error]]

\* Fuzzer.is_resolved, called by the user.
is_resolved_call(s) ==
    /\ Call(s, "is_resolved")
    /\ \E reachable \in BOOLEAN, base \in BOOLEAN, st \in StatusOutcomes :
          \E r \in {is_resolved(package_path[s], reachable, base, st)} :
             /\ IsResolved(s, reachable, base, st, r)
             /\ result' = [result EXCEPT ![s] = r.value]
    /\ pc' = [pc EXCEPT ![s] = "done"]
    /\ UNCHANGED <<foreground, libfuzzer_inputs, last_known_pid, urls, proc,
                   wrote, remoteLogs, exitFirst, logFirst, logAtFinal,
                   logEver, rawLogs, globbed, job_num, symrec, dirVars,
                   cfgVars, options, written, overwrote, cmd, repro_dump,
                   retrieved, symbolized, progress, symprev, cov, gn, stale, rtdeps>>

\* Fuzzer.resolve: the first status check (fuzzer.py:304-305).
resolve(s) ==
    /\ Call(s, "resolve")
    /\ \E reachable \in BOOLEAN, base \in BOOLEAN, st \in StatusOutcomes :
          \E r \in {is_resolved(package_path[s], reachable, base, st)} :
             /\ IsResolved(s, reachable, base, st, r)
             /\ result' = [result EXCEPT ![s] =
                              IF r.value = "true" THEN "ok"
                              ELSE IF r.value = "false" THEN "none"
                              ELSE r.value]
             /\ pc' = [pc EXCEPT ![s] =
                          IF r.value = "false" THEN "resolve_cmd" ELSE "done"]
    /\ UNCHANGED <<foreground, libfuzzer_inputs, last_known_pid, urls, proc,
                   wrote, remoteLogs, exitFirst, logFirst, logAtFinal,
                   logEver, rawLogs, globbed, job_num, symrec, dirVars,
                   cfgVars, options, written, overwrote, cmd, repro_dump,
                   retrieved, symbolized, progress, symprev, cov, gn, stale, rtdeps>>

\* Fuzzer.resolve: pkgctl resolve under check_call, which raises when the
\* command exits with a code that is not zero (fuzzer.py:306-307).
ResolveCmd(s) ==
    /\ pc[s] = "resolve_cmd"
    /\ ssh' = [ssh EXCEPT ![s] = @ \cup {"pkg-resolve"}]
    /\ \/ /\ pc' = [pc EXCEPT ![s] = "resolve_check"]
          /\ UNCHANGED <<result, pkgrec>>
       \/ /\ pc' = [pc EXCEPT ![s] = "done"]
          /\ result' = [result EXCEPT ![s] = "CalledProcessError"]
          /\ pkgrec' = [pkgrec EXCEPT ![s].error =
                          [returncode |-> 1, cmd |-> ResolveCommand]]
    /\ UNCHANGED <<op, foreground, libfuzzer_inputs, last_known_pid, urls,
                   proc, wrote, remoteLogs, atCall, exitFirst, logFirst,
                   logAtFinal, logEver, rawLogs, globbed, job_num, symrec,
                   dirVars, cfgVars, options, written, overwrote, cmd,
                   repro_dump, retrieved, symbolized, progress, symprev,
                   package_path, cov, gn, stale, rtdeps>>

\* resolve returns after the command without a second status check.
ResolveCheckSkipped(s) ==
    /\ pc[s] = "resolve_check"
    /\ result' = [result EXCEPT ![s] = "ok"]
    /\ pc' = [pc EXCEPT ![s] = "done"]
    /\ UNCHANGED <<op, foreground, libfuzzer_inputs, last_known_pid, urls,
                   proc, wrote, remoteLogs, ssh, atCall, exitFirst, logFirst,
                   logAtFinal, logEver, rawLogs, globbed, job_num, symrec,
                   dirVars, cfgVars, options, written, overwrote, cmd,
                   repro_dump, retrieved, symbolized, progress, toolVars>>

\* Fuzzer.resolve: the status check after the command, and the error when
\* the package is still not resolved (fuzzer.py:308-309).
ResolveCheck(s) ==
    /\ pc[s] = "resolve_check"
    /\ \E reachable \in BOOLEAN, base \in BOOLEAN, st \in StatusOutcomes :
          \E r \in {is_resolved(package_path[s], reachable, base, st)} :
             /\ IsResolved(s, reachable, base, st, r)
             /\ result' = [result EXCEPT ![s] =
                              IF r.value = "true" THEN "ok"
                              ELSE IF r.value = "false"
                              THEN "Failed to resolve package: fake-package1"
                              ELSE r.value]
    /\ pc' = [pc EXCEPT ![s] = "done"]
    /\ UNCHANGED <<op, foreground, libfuzzer_inputs, last_known_pid, urls,
                   proc, wrote, remoteLogs, atCall, exitFirst, logFirst,
                   logAtFinal, logEver, rawLogs, globbed, job_num, symrec,
                   dirVars, cfgVars, options, written, overwrote, cmd,
                   repro_dump, retrieved, symbolized, progress, symprev,
                   cov, gn, stale, rtdeps>>

\* ------------------------------------------------------ coverage report
\* Any build is taken as a profile build.
profile_variant_any(select_variant) == TRUE

\* "'select_variant' in args and 'profile' in args['select_variant']"
\* (fuzzer.py:627-629).
profile_variant(select_variant) == select_variant = "profile"

\* The argument of host.error for a path that is not a directory
\* (fuzzer.py:646-648), and the same in pieces: the string is passed as it
\* is written, with its '{}'.
NotADirectory == "{} is not a directory, and cannot be used as corpus input."
NotADirectoryPieces ==
    <<"{}", " is not a directory, and cannot be used as corpus input.">>

\* The message of host.error in pieces.
ErrorPieces(message) ==
    IF message = NotADirectory THEN NotADirectoryPieces ELSE <<message>>

\* The loop over input_dirs (fuzzer.py:641-648): the steps made, and the
\* error of the first path that is not a directory.
RECURSIVE add_input_dirs(_, _)
add_input_dirs(input_dirs, steps) ==
    IF input_dirs = <<>> THEN [steps |-> steps, result |-> "none"]
    ELSE IF Head(input_dirs) = "corpus-dir"
    THEN add_input_dirs(Tail(input_dirs), Append(steps, "add_from_host"))
    ELSE [steps |-> Append(steps, "isdir"),
          result |-> NotADirectory]

\* The steps that follow the corpus: the output directory, the test
\* sharder, the test runner, the symbolizer and covargs (fuzzer.py:650-667).
ReportSteps ==
    <<"mkdir", "testsharder", "testrunner", "symbolize", "covargs", "echo">>

\* Fuzzer.generate_coverage_report (fuzzer.py:609-667): the steps it makes
\* in their order, the realm label it leaves and how it ends.  host.error
\* and the setter of realm_label end the call where they are reached.
coverage_report(in) ==
    IF ~in.ssh_identity
    THEN [steps |-> <<>>, realm_label |-> "",
          result |-> "Unable to determine ssh identity."]
    ELSE IF ~in.addr
    THEN [steps |-> <<"putenv FUCHSIA_SSH_KEY">>, realm_label |-> "",
          result |-> "Unable to determine device address."]
    ELSE LET env == <<"putenv FUCHSIA_SSH_KEY", "putenv FUCHSIA_DEVICE_ADDR",
                      "open args.json">>
             relabel == ~in.local \/ in.input_dirs # <<>>
             gcs == IF ~in.local THEN env \o <<"echo", "add_from_gcs">> ELSE env
             dirs == add_input_dirs(in.input_dirs, gcs)
         IN  IF ~profile_variant(in.select_variant)
             THEN [steps |-> env, realm_label |-> "",
                   result |-> "Not built with profile variant."]
             ELSE IF relabel /\ ~in.is_test
             THEN [steps |-> env, realm_label |-> "",
                   result |-> "ValueError: Cannot set realm_label for a non-test fuzzer."]
             ELSE IF dirs.result # "none"
             THEN [steps |-> dirs.steps,
                   realm_label |-> IF relabel THEN "coverage" ELSE "",
                   result |-> dirs.result]
             ELSE [steps |-> dirs.steps \o ReportSteps,
                   realm_label |-> IF relabel THEN "coverage" ELSE "",
                   result |-> "ok"]

\* Fuzzer.generate_coverage_report, called by the user.
generate_coverage_report(s) ==
    /\ Call(s, "generate_coverage_report")
    /\ \E in \in CoverageInputs :
          LET r == coverage_report(in)
          IN  /\ cov' = [called |-> TRUE, input |-> in, steps |-> r.steps,
                         message |-> ErrorPieces(r.result),
                         realm_label |-> r.realm_label, result |-> r.result]
              /\ result' = [result EXCEPT ![s] = r.result]
    /\ pc' = [pc EXCEPT ![s] = "done"]
    /\ UNCHANGED <<foreground, libfuzzer_inputs, last_known_pid, urls, proc,
                   wrote, remoteLogs, ssh, exitFirst, logFirst, logAtFinal,
                   logEver, rawLogs, globbed, job_num, symrec, dirVars,
                   cfgVars, options, written, overwrote, cmd, repro_dump,
                   retrieved, symbolized, progress, symprev, package_path,
                   pkgrec, gn, stale, rtdeps>>

\* -------------------------------------------------------------- BUILD.gn
BuildGn == "fake-package1/BUILD.gn"
FuzzerTarget == "fuzzer(\"fake-target1\")"
\* corpus_dir: relative to the directory of BUILD.gn when the corpus is
\* below it, else relative to the source tree (fuzzer.py:568-573).
corpus_dir(corpus_label) ==
    IF corpus_label.below THEN <<corpus_label.rel>>
    ELSE <<"//", corpus_label.rel>>

\* line.rstrip()
rstrip(line) == [line EXCEPT !.trail = 0]

\* The locals of the loop before its first line (fuzzer.py:575-579).
GnStart ==
    [found |-> FALSE, matching_target |-> FALSE, nested_scopes |-> 0,
     lines_out |-> <<>>]

\* One round of the loop over the lines of BUILD.gn (fuzzer.py:581-598).
gn_line(st, raw, dir) ==
    LET line == rstrip(raw)
        matching == st.matching_target \/ (~st.found /\ line.target)
        nested == st.nested_scopes + line.open - line.close
        closed == nested = 0
        added == IF closed THEN Append(st.lines_out, GnCorpus(line.indent, dir))
                 ELSE st.lines_out
    IN  IF ~matching THEN [st EXCEPT !.lines_out = Append(@, line)]
        ELSE [found |-> st.found \/ closed,
              matching_target |-> ~closed,
              nested_scopes |-> nested,
              lines_out |-> IF ~line.corpus THEN Append(added, line) ELSE added]

RECURSIVE gn_loop(_, _, _)
gn_loop(st, lines, dir) ==
    IF lines = <<>> THEN st
    ELSE gn_loop(gn_line(st, Head(lines), dir), Tail(lines), dir)

\* BUILD.gn is written whether the target was found or not.
write_always(found) == TRUE

\* "if found:" BUILD.gn is written (fuzzer.py:600-603).
write_if(found) == found

\* Fuzzer.add_corpus_to_buildfile (fuzzer.py:548-607) for a label that is
\* generated or not and a BUILD.gn that is a file or not: the value
\* returned, the message echoed (the first one without its backquotes)
\* and the file afterwards.
corpus_to_buildfile(generated, isfile, file, corpus_label) ==
    IF generated
    THEN [value |-> FALSE, wrote |-> FALSE, after |-> file,
          echoed |-> <<"Fuzzer metadata out of date; please re-run fx set.">>]
    ELSE IF ~isfile
    THEN [value |-> FALSE, wrote |-> FALSE, after |-> file,
          echoed |-> <<"No such file: ", BuildGn>>]
    ELSE LET st == gn_loop(GnStart, file.lines, corpus_dir(corpus_label))
         IN  [value |-> st.found,
              wrote |-> write_if(st.found),
              after |-> IF write_if(st.found)
                        THEN [lines |-> st.lines_out, eol |-> FALSE]
                        ELSE file,
              echoed |-> IF st.found THEN <<>>
                         ELSE <<"Unable to find '", FuzzerTarget, "' in ", BuildGn>>]

\* Fuzzer.add_corpus_to_buildfile, called by the user with a label that is
\* generated or not, on the BUILD.gn that is there, while that has at most
\* MaxGnLines lines.
add_corpus_to_buildfile(s) ==
    /\ Call(s, "add_corpus_to_buildfile")
    /\ Len(gn.after.lines) <= MaxGnLines
    /\ \E generated \in BOOLEAN, corpus_label \in CorpusLabels :
          LET r == corpus_to_buildfile(generated, gn.isfile, gn.after, corpus_label)
          IN  /\ gn' = [called |-> TRUE, generated |-> generated,
                        dir |-> corpus_dir(corpus_label),
                        isfile |-> gn.isfile, before |-> gn.after,
                        after |-> r.after, wrote |-> r.wrote,
                        value |-> r.value, echoed |-> r.echoed]
              /\ result' = [result EXCEPT ![s] =
                               IF r.value THEN "True" ELSE "False"]
    /\ pc' = [pc EXCEPT ![s] = "done"]
    /\ UNCHANGED <<foreground, libfuzzer_inputs, last_known_pid, urls, proc,
                   wrote, remoteLogs, ssh, exitFirst, logFirst, logAtFinal,
                   logEver, rawLogs, globbed, job_num, symrec, dirVars,
                   cfgVars, options, written, overwrote, cmd, repro_dump,
                   retrieved, symbolized, progress, symprev, package_path,
                   pkgrec, cov, stale, rtdeps>>

\* The developer writes the BUILD.gn of the fuzzer.
GnCreated ==
    /\ ~gn.isfile
    /\ \E file \in GnFiles :
          gn' = [NoBuildfile EXCEPT !.isfile = TRUE, !.after = file]
    /\ UNCHANGED <<pc, op, result, foreground, libfuzzer_inputs,
                   last_known_pid, urls, proc, wrote, remoteLogs, ssh, atCall,
                   exitFirst, logFirst, logAtFinal, logEver, rawLogs, globbed,
                   job_num, symrec, dirVars, cfgVars, options, written,
                   overwrote, cmd, repro_dump, retrieved, symbolized, progress,
                   symprev, package_path, pkgrec, cov, stale, rtdeps>>

\* ------------------------------------------------- verify_runtime_deps.py
\* os.path.normpath: a leading "./" is dropped.
normpath(path) == [path EXCEPT !.dot = FALSE]

\* os.path.basename: the last component of the path.
basename(path) == [base |-> path.base, impl |-> path.impl]

\* _SYSROOT_LIBS (verify_runtime_deps.py:13).
SYSROOT_LIBS ==
    {[base |-> "libc.so", impl |-> 0], [base |-> "libzircon.so", impl |-> 0]}

\* '%s.impl' % file (verify_runtime_deps.py:34).
with_impl(file) == [file EXCEPT !.impl = @ + 1]

\* has_packaged_file (verify_runtime_deps.py:16-22); deps is a sequence of
\* atoms.
has_packaged_file(needed_file, deps) ==
    \E d \in 1 .. Len(deps) :
        \E file \in deps[d].files : needed_file = normpath(file.source)

\* has_missing_files (verify_runtime_deps.py:25-38): the value returned
\* and the files reported as missing.
has_missing_files(runtime_files, package_deps) ==
    LET missing(file) ==
            /\ basename(file) \notin SYSROOT_LIBS
            /\ ~has_packaged_file(file, package_deps)
            /\ ~has_packaged_file(with_impl(file), package_deps)
        printed == SelectSeq(runtime_files, missing)
    IN  [value |-> printed # <<>>, printed |-> printed]

\* find_atom (verify_runtime_deps.py:64-65).
find_atom(manifest, id) == CHOOSE a \in manifest.atoms : a.id = id

\* main (verify_runtime_deps.py:41-76) for the lines of the runtime deps
\* file and the manifest read: the exit status, whether the stamp is
\* written and the files reported.
main(runtime_files, manifest) ==
    LET atom_id == manifest.ids[1]
        atom == find_atom(manifest, atom_id)
        deps == [i \in 1 .. Len(atom.deps) |-> find_atom(manifest, atom.deps[i])]
                    \o <<atom>>
        r == has_missing_files(runtime_files, deps)
    IN  IF r.value
        THEN [status |-> 1, stamp |-> FALSE, printed |-> r.printed]
        ELSE [status |-> 0, stamp |-> TRUE, printed |-> r.printed]

\* verify_runtime_deps.py is run by the build on a runtime deps file and a
\* manifest.
VerifyRuntimeDeps ==
    /\ ~rtdeps.called
    /\ \E runtime_files \in RuntimeFiles, manifest \in Manifests :
          LET r == main(runtime_files, manifest)
          IN  rtdeps' = [called |-> TRUE, runtime_files |-> runtime_files,
                         manifest |-> manifest, status |-> r.status,
                         stamp |-> r.stamp, printed |-> r.printed]
    /\ UNCHANGED <<pc, op, result, foreground, libfuzzer_inputs,
                   last_known_pid, urls, proc, wrote, remoteLogs, ssh, atCall,
                   exitFirst, logFirst, logAtFinal, logEver, rawLogs, globbed,
                   job_num, symrec, dirVars, cfgVars, options, written,
                   overwrote, cmd, repro_dump, retrieved, symbolized, progress,
                   symprev, package_path, pkgrec, cov, gn, stale>>

\* Fuzzer.symbolize_log called once more by the user of session s, with
\* the lines and the job index of its first call, the symbolizer and
\* guess_pid answering as they did then.  The first call made the log,
\* as its log base was not set before.
SymbolizeLogAgain(s) ==
    /\ pc[s] = "done" /\ op[s] = "symbolize_log"
    /\ symrec.called /\ symrec.session = s
    /\ ~symprev.called
    /\ \E answers \in SymAnswers(Markers(symrec.fd_in)), guess \in GuessPids :
          LET r == symbolize_log_impl(symrec.fd_in, last_known_pid[s], answers,
                                      guess, symrec.echo)
          IN  /\ r.texts = symrec.texts
              /\ r.guesses = symrec.guesses
              /\ symbolize_log_with(s, symrec.fd_in, symrec.job_num,
                                    symrec.echo, answers, guess)
    /\ symprev' = [called |-> TRUE,
                   log |-> LogFile(logbase[s], symrec.job_num),
                   content |-> open_w(<<>>, symrec.out),
                   outFiles |-> outFiles, latest |-> latest,
                   logbase |-> logbase[s],
                   last_known_pid |-> last_known_pid[s]]
    /\ UNCHANGED <<pc, op, result, foreground, libfuzzer_inputs, urls, proc,
                   wrote, remoteLogs, atCall, exitFirst, logFirst, logAtFinal,
                   logEver, rawLogs, globbed, job_num, cfgVars, options, cmd,
                   repro_dump, retrieved, symbolized, progress, package_path,
                   pkgrec, cov, gn, stale, rtdeps>>

\* The content of the log that the most recent symbolize_log call wrote:
\* what the call wrote into what the log held, if the call before it
\* had written the same log.
LogContent ==
    open_w(IF symprev.called /\ symprev.log = LogFile(logbase[symrec.session], symrec.job_num)
           THEN symprev.content ELSE <<>>,
           symrec.out)

\* The operation has returned (or raised) and the caller has its result.
Return(s) ==
    /\ pc[s] = "done"
    /\ pc' = [pc EXCEPT ![s] = "idle"]
    /\ op' = [op EXCEPT ![s] = "none"]
    /\ result' = [result EXCEPT ![s] = "none"]
    /\ ssh' = [ssh EXCEPT ![s] = {}]
    /\ atCall' = [atCall EXCEPT ![s] = FALSE]
    /\ exitFirst' = [exitFirst EXCEPT ![s] = FALSE]
    /\ logFirst' = [logFirst EXCEPT ![s] = FALSE]
    /\ logAtFinal' = [logAtFinal EXCEPT ![s] = FALSE]
    /\ logEver' = [logEver EXCEPT ![s] = FALSE]
    /\ written' = [written EXCEPT ![s] = {}]
    /\ overwrote' = [overwrote EXCEPT ![s] = {}]
    /\ cmd' = [cmd EXCEPT ![s] = <<>>]
    /\ repro_dump' = [repro_dump EXCEPT ![s] = <<>>]
    /\ retrieved' = [retrieved EXCEPT ![s] = {}]
    /\ symbolized' = [symbolized EXCEPT ![s] = <<>>]
    /\ progress' = [progress EXCEPT ![s] = 0]
    /\ pkgrec' = [pkgrec EXCEPT ![s] = NoPkgRecord]
    /\ symrec' = IF symrec.session = s THEN NoSymRecord ELSE symrec
    /\ stale' = NoStale
    /\ UNCHANGED <<foreground, libfuzzer_inputs, last_known_pid, urls, proc,
                   wrote, remoteLogs, rawLogs, globbed, job_num, dirVars, cfgVars, options,
                   symprev, package_path, cov, gn, rtdeps>>

\* ------------------------------------------------------- the environment
\* The process launched by session s exits by itself.
ProcExit(s) ==
    /\ Alive(s)
    /\ \E code \in {"exit0", "exit1"} : proc' = [proc EXCEPT ![s] = code]
    /\ exitFirst' = [exitFirst EXCEPT ![s] = InCall(s) /\ remoteLogs = {}]
    /\ UNCHANGED <<pc, op, result, foreground, libfuzzer_inputs,
                   last_known_pid, urls, wrote, remoteLogs, ssh, atCall,
                   logFirst, logAtFinal, logEver, rawLogs, globbed, job_num, symrec, dirVars, cfgVars,
                   options, written, overwrote, cmd, repro_dump, retrieved,
                   symbolized,
                   progress, toolVars>>

\* The number of job logs the process launched by session s creates: one
\* for each of the jobs its command asks for, none without -jobs.
JobLogs(s) ==
    IF "jobs" \in DOMAIN options[s] THEN Num(options[s]["jobs"]) ELSE 0

\* The next job log of the process launched by session s appears on the
\* device (fuzz-0.log, then fuzz-1.log, ...).
LogAppears(s) ==
    /\ proc[s] # "none"
    /\ wrote[s] < JobLogs(s)
    /\ remoteLogs' = remoteLogs \cup {wrote[s]}
    /\ wrote' = [wrote EXCEPT ![s] = @ + 1]
    /\ logFirst' = [logFirst EXCEPT ![s] = @ \/ (InCall(s) /\ Alive(s))]
    /\ logEver' = [t \in Sessions |-> InCall(t)]
    /\ stale' = [stale EXCEPT !.left = @ \ {wrote[s]}, !.fresh = TRUE]
    /\ UNCHANGED <<pc, op, result, foreground, libfuzzer_inputs,
                   last_known_pid, urls, proc, ssh, atCall, exitFirst,
                   logAtFinal, rawLogs, globbed, job_num, symrec, dirVars, cfgVars,
                   options, written, overwrote, cmd, repro_dump, retrieved,
                   symbolized,
                   progress, symprev, package_path, pkgrec, cov, gn,
                   rtdeps>>

\* ------------------------------------------------------- specifications
Step(s) ==
    \/ set_libfuzzer_inputs(s)
    \/ set_foreground(s)
    \/ start(s)
    \/ analyze(s)
    \/ repro(s)
    \/ StartRemove(s)
    \/ ReproStore(s)
    \/ launch(s)
    \/ BgPoll(s)
    \/ BgLs(s)
    \/ BgFinal(s)
    \/ FgSymbolize(s)
    \/ ReproSymbolize(s)
    \/ ReproDump(s)
    \/ AnalyzeProgress(s)
    \/ AnalyzeWait(s)
    \/ monitor(s)
    \/ MonitorPoll(s)
    \/ MonitorFetch(s)
    \/ MonitorRemove(s)
    \/ MonitorSymbolize(s)
    \/ stop(s)
    \/ check(s)
    \/ Return(s)
    \/ ProcExit(s)
    \/ LogAppears(s)

\* One invocation of the tool, its process and the device.
Next == Step(Main)
Spec == Init /\ [][Next]_vars

\* The steps of an invocation that starts the fuzzer in the background and
\* stops it.
ConcStep(s) ==
    \/ start(s)
    \/ StartRemove(s)
    \/ launch(s)
    \/ BgPoll(s)
    \/ BgLs(s)
    \/ BgFinal(s)
    \/ stop(s)
    \/ Return(s)
    \/ ProcExit(s)
    \/ LogAppears(s)

\* Several such invocations against the same target, interleaved.
NextConc == \E s \in Sessions : ConcStep(s)
SpecConc == Init /\ [][NextConc]_vars

\* symbolize_log applied to every stream of at most MaxLines lines.
NextSym == SymbolizeLogCall(Main) \/ SymbolizeLogAgain(Main)
SpecSym == Init /\ [][NextSym]_vars

\* The steps of an invocation that starts the fuzzer in the background,
\* with the libFuzzer options of its caller, and monitors it.
MonStep(s) ==
    \/ set_libfuzzer_opts(s)
    \/ start(s)
    \/ StartRemove(s)
    \/ launch(s)
    \/ BgPoll(s)
    \/ BgLs(s)
    \/ BgFinal(s)
    \/ monitor(s)
    \/ MonitorPoll(s)
    \/ MonitorFetch(s)
    \/ MonitorRemove(s)
    \/ MonitorSymbolize(s)
    \/ Return(s)
    \/ ProcExit(s)
    \/ LogAppears(s)

NextMon == MonStep(Main)
SpecMon == Init /\ [][NextMon]_vars

\* An invocation that starts the fuzzer in the background and monitors
\* it, and another one that stops the fuzzer.
LiveStep(s) ==
    \/ start(s)
    \/ StartRemove(s)
    \/ launch(s)
    \/ BgPoll(s)
    \/ BgLs(s)
    \/ BgFinal(s)
    \/ monitor(s)
    \/ MonitorPoll(s)
    \/ MonitorFetch(s)
    \/ MonitorRemove(s)
    \/ MonitorSymbolize(s)
    \/ Return(s)
    \/ ProcExit(s)
    \/ LogAppears(s)

NextLive == LiveStep(Main) \/ stop(Other) \/ Return(Other)

\* monitor runs on: each step of it that can be taken is taken in the end
\* (its loop sleeps two seconds and probes again, fuzzer.py:476-477).
MonitorRuns(s) ==
    /\ WF_vars(MonitorPoll(s))
    /\ WF_vars(MonitorFetch(s))
    /\ WF_vars(MonitorRemove(s))
    /\ WF_vars(MonitorSymbolize(s))
SpecLive == Init /\ [][NextLive]_vars /\ MonitorRuns(Main)

\* The wait loop of a background launch runs on: it polls, lists and
\* sleeps half a second, again and again (fuzzer.py:361-362).  Nothing is
\* assumed of the process: it may run for ever and never create a log.
LaunchRuns(s) ==
    /\ WF_vars(BgPoll(s))
    /\ WF_vars(BgLs(s))
    /\ WF_vars(BgFinal(s))
NextWait == LiveStep(Main)
SpecWait == Init /\ [][NextWait]_vars /\ LaunchRuns(Main)

\* The steps of an invocation up to the launch of its command: the
\* properties are set, then start, analyze or repro is called.
CmdStep(s) ==
    \/ set_debug(s)
    \/ set_libfuzzer_opts(s)
    \/ set_subprocess_args(s)
    \/ set_dictionary(s)
    \/ set_foreground(s)
    \/ set_libfuzzer_inputs(s)
    \/ start(s)
    \/ analyze(s)
    \/ repro(s)
    \/ StartRemove(s)
    \/ ReproStore(s)
    \/ launch(s)

NextCmd == CmdStep(Main)
SpecCmd == Init /\ [][NextCmd]_vars

\* ================================================================ claims
BgLaunched(s) ==
    op[s] \in {"start", "analyze"} /\ "run" \in ssh[s] /\ ~foreground[s]
GuardedOp(s) == op[s] \in {"start", "analyze", "repro"}
Rejected(s) ==
    /\ pc[s] = "done"
    /\ result[s] = "is running and must be stopped first"
    /\ "run" \notin ssh[s]
    /\ "rm" \notin ssh[s]

\* C1: across every interleaving of two invocations that start the fuzzer
\* against the same target, at most one remote process of the target is
\* running at any time.
C1_OneProcessPerTarget == Cardinality({s \in Sessions : Alive(s)}) <= 1

\* C2 as stated: start, repro or analyze called while the target is running
\* fails with the is-running error, launches nothing and removes no log.
C2_RunningRejected_Original ==
    \A s \in Sessions : (InCall(s) /\ GuardedOp(s) /\ atCall[s]) => Rejected(s)

\* C2: start, analyze, or repro with at least one input unit, called while
\* the target is running, fails with the is-running error, launches no
\* process and removes no remote log.
C2_RunningRejected ==
    \A s \in Sessions :
        (/\ InCall(s)
         /\ GuardedOp(s)
         /\ atCall[s]
         /\ (op[s] = "repro" => libfuzzer_inputs[s] # <<>>)) => Rejected(s)

C2_Witness ==
    /\ op[Main] = "repro"
    /\ atCall[Main]
    /\ libfuzzer_inputs[Main] # <<>>
    /\ Rejected(Main)
    /\ urls[Main] = "yes"

\* C3: a stop called while the target's process is running issues the
\* killall command, whatever the session did before.
C3_StopKillsRunning ==
    \A s \in Sessions :
        (pc[s] = "done" /\ op[s] = "stop" /\ atCall[s]) => "killall" \in ssh[s]

\* C4: a stop called while the target's process is not running issues no
\* killall, raises nothing and leaves the liveness state at "not running".
C4_StopWhenStoppedIsNoop ==
    \A s \in Sessions :
        (pc[s] = "done" /\ op[s] = "stop" /\ ~atCall[s]) =>
            (/\ "killall" \notin ssh[s]
             /\ result[s] = "ok"
             /\ urls[s] = "no")

\* C5: a background launch during which no remote log has ever existed ends
\* in the error "failed to start", with the process exited and the liveness
\* state "not running".
C5_FailedToStart ==
    \A s \in Sessions :
        (pc[s] = "done" /\ BgLaunched(s) /\ ~logEver[s]) =>
            (/\ result[s] = "failed to start"
             /\ ~Alive(s)
             /\ urls[s] = "no")

C5_Witness ==
    /\ pc[Main] = "done"
    /\ BgLaunched(Main)
    /\ ~logEver[Main]
    /\ result[Main] = "failed to start"
    /\ proc[Main] = "exit1"

\* C6 as stated: a background launch whose process exited while no remote
\* log existed fails with "failed to start", even if a log appears later.
C6_FirstEventDecides_Original ==
    \A s \in Sessions :
        (pc[s] = "done" /\ BgLaunched(s) /\ exitFirst[s]) =>
            result[s] = "failed to start"

\* C6: a background launch whose process exited while no remote log existed
\* fails with "failed to start" exactly when the listing made after the exit
\* was observed still finds no log; a log that appears after that listing
\* does not change the outcome, one that appears before it makes the launch
\* succeed.
C6_FirstEventDecides ==
    \A s \in Sessions :
        (pc[s] = "done" /\ BgLaunched(s) /\ exitFirst[s]) =>
            (result[s] = "failed to start" <=> ~logAtFinal[s])

C6_Witness ==
    /\ pc[Main] = "done"
    /\ BgLaunched(Main)
    /\ exitFirst[Main]
    /\ result[Main] = "failed to start"
    /\ wrote[Main] > 0
    /\ remoteLogs # {}

\* C7: a background launch during which a remote log appeared while the
\* process was alive succeeds: start returns normally once the wait loop is
\* left, whether or not the process has exited by then.
C7_LogFirstSucceeds ==
    \A s \in Sessions :
        (/\ BgLaunched(s)
         /\ logFirst[s]
         /\ pc[s] \notin {"bg_poll", "bg_ls", "bg_final"}) =>
            (/\ result[s] # "failed to start"
             /\ (op[s] = "start" => pc[s] = "done" /\ result[s] = "ok"))

C7_Witness ==
    /\ pc[Main] = "done"
    /\ op[Main] = "start"
    /\ BgLaunched(Main)
    /\ logFirst[Main]
    /\ result[Main] = "ok"
    /\ Alive(Main)

\* The position of the first line with a mutation-sequence marker, or 0.
FirstMutation(lines) ==
    LET hits == { i \in 1 .. Len(lines) : Head(lines[i]) = Ms }
    IN  IF hits = {} THEN 0 ELSE CHOOSE i \in hits : \A j \in hits : i <= j

\* C8: one symbolize_log call fetches and splices the symbol dump at most
\* once, however many mutation-sequence lines the stream has.
C8_AtMostOneDump == Len(symrec.dumps) <= 1

\* C9: the file written by symbolize_log is the input with the symbolizer's
\* text inserted immediately before the first mutation-sequence line, and
\* the input unchanged, with no dump fetched, when there is no such line.
C9_OutputIsInputWithSplice ==
    symrec.called =>
        LET lines == symrec.fd_in
            i == FirstMutation(lines)
        IN  IF i = 0
            THEN symrec.out = Flatten(lines) /\ symrec.dumps = <<>>
            ELSE /\ symrec.dumps # <<>>
                 /\ symrec.out = Flatten(SubSeq(lines, 1, i - 1))
                                   \o symrec.texts[1]
                                   \o Flatten(SubSeq(lines, i, Len(lines)))

\* C10: symbolize_log returns true exactly when the stream has a
\* mutation-sequence line, whatever the symbolizer returned.
C10_FoundIffMutation ==
    symrec.called => (symrec.found <=> FirstMutation(symrec.fd_in) # 0)

C10_Witness ==
    /\ symrec.called
    /\ symrec.found
    /\ symrec.texts[1] = <<>>
    /\ Len(symrec.fd_in) = MaxLines

\* The log that symbolize_log names for the job of its most recent call.
LastLog == LogFile(logbase[symrec.session], symrec.job_num)

\* C11: after any sequence of symbolize_log calls that have returned, the
\* log of every call exists in the output directory, also when its input
\* was empty, and fuzz-latest.log refers to the log written by the most
\* recent call.
C11_LogExistsAndIsLatest ==
    /\ \A s \in Sessions : written[s] \subseteq outFiles
    /\ symrec.called =>
          (/\ LastLog \in written[symrec.session]
           /\ LastLog \in outFiles
           /\ latest = LastLog)

C11_Witness ==
    /\ symrec.called
    /\ symrec.fd_in = <<>>
    /\ symrec.job_num = 1
    /\ written[Main] = {LogFile(Now, 0), LogFile(Now, 1)}
    /\ latest = LogFile(Now, 1)

\* The artifacts announced in a stream.
Announced(lines) == UNION { art_pattern(lines[i]) : i \in 1 .. Len(lines) }
\* The paths requested by a sequence of fetch calls, in order.
FetchedPaths(calls) == Flatten([i \in 1 .. Len(calls) |-> calls[i].paths])
Count(seq, x) == Cardinality({ i \in 1 .. Len(seq) : seq[i] = x })

\* C12: every artifact a stream announces, however often it announces it,
\* is requested from the device exactly once by symbolize_log.
C12_ArtifactRequestedOnce ==
    symrec.called =>
        \A a \in Announced(symrec.fd_in) :
            Count(FetchedPaths(symrec.fetched), a) = 1

\* C13: every artifact announced anywhere in the stream is fetched by the
\* symbolize_log call, every fetch is made when the whole stream has been
\* consumed, nothing else is fetched, and a stream that announces no
\* artifact causes no fetch.
C13_ArtifactsFetchedAtEnd ==
    symrec.called =>
        (/\ \A a \in Announced(symrec.fd_in) :
                Count(FetchedPaths(symrec.fetched), a) >= 1
         /\ \A i \in 1 .. Len(symrec.fetched) :
                /\ symrec.fetched[i].after = Len(symrec.fd_in)
                /\ \A j \in 1 .. Len(symrec.fetched[i].paths) :
                       symrec.fetched[i].paths[j] \in Announced(symrec.fd_in)
         /\ (Announced(symrec.fd_in) = {} => symrec.fetched = <<>>))

C13_Witness ==
    /\ symrec.called
    /\ Len(symrec.fd_in) = MaxLines
    /\ art_pattern(symrec.fd_in[1]) = {1}
    /\ art_pattern(symrec.fd_in[2]) = {2}
    /\ art_pattern(symrec.fd_in[Len(symrec.fd_in)]) = {}
    /\ symrec.fetched = <<Fetch(<<1, 2>>, MaxLines)>>

\* The last pid a stream reports, or 0.
LastPid(lines) ==
    LET hits == { i \in 1 .. Len(lines) : pid_pattern(lines[i]) # {} }
    IN  IF hits = {} THEN 0
        ELSE LET i == CHOOSE i \in hits : \A j \in hits : j <= i
             IN  CHOOSE p \in pid_pattern(lines[i]) : TRUE

\* repro has launched its process and has returned.
ReproRan(s) == pc[s] = "done" /\ op[s] = "repro" /\ "run" \in ssh[s]

\* C14: when repro has consumed the output of its process and the process
\* has exited with a non-zero status, one dump is fetched for the last pid
\* seen in the output of this run, or for a guessed pid when the output
\* shows none, whether or not the output has a mutation marker; when the
\* process has exited with status zero there is no such dump.
C14_ReproFallbackDump ==
    \A s \in Sessions :
        (ReproRan(s) /\ symrec.called /\ symrec.session = s) =>
            IF proc[s] = "exit0"
            THEN repro_dump[s] = <<>>
            ELSE /\ "dump" \in ssh[s]
                 /\ IF LastPid(symrec.fd_in) > 0
                    THEN repro_dump[s] = <<LastPid(symrec.fd_in)>>
                    ELSE /\ "guess" \in ssh[s]
                         /\ \E g \in GuessPids : repro_dump[s] = <<g>>

C14_Witness ==
    /\ ReproRan(Main)
    /\ proc[Main] = "exit1"
    /\ symrec.called
    /\ LastPid(symrec.fd_in) = 1
    /\ FirstMutation(symrec.fd_in) = 0
    /\ symrec.dumps = <<>>
    /\ repro_dump[Main] = <<1>>

\* C15: monitor probes with a forced refresh, so what it has learnt is
\* true of the device; it fetches or removes remote logs only when a probe
\* has found the fuzzer stopped, and it removes them only after it has
\* fetched them.
C15_MonitorFetchesWhenStopped ==
    \A s \in Sessions :
        (op[s] = "monitor" /\ "cs" \in ssh[s]) =>
            (/\ urls[s] # "unknown"
             /\ (urls[s] = "no" => ~TargetRunning)
             /\ (ssh[s] \cap {"scp", "rm"} # {} => urls[s] = "no")
             /\ ("rm" \in ssh[s] => "scp" \in ssh[s]))

C15_Witness ==
    /\ pc[Main] = "done"
    /\ op[Main] = "monitor"
    /\ atCall[Main]
    /\ {"cs", "scp", "rm"} \subseteq ssh[Main]
    /\ retrieved[Main] # {}

\* monitor has returned.
Monitored(s) == pc[s] = "done" /\ op[s] = "monitor"

\* What monitor does with the n raw logs it has retrieved: the log with i
\* smaller ones is symbolized i-th with job index i, its local copy is
\* deleted, and exactly the symbolized logs 0 .. n-1 are written.
MonitorSymbolizedAll(s) ==
    LET n == Cardinality(retrieved[s])
    IN  /\ Len(symbolized[s]) = n
        /\ \A i \in 1 .. n :
              /\ symbolized[s][i].job = i - 1
              /\ symbolized[s][i].log \in retrieved[s]
              /\ Cardinality({ x \in retrieved[s] : x < symbolized[s][i].log }) = i - 1
        /\ rawLogs \cap retrieved[s] = {}
        /\ written[s] = { LogFile(logbase[s], j) : j \in 0 .. (n - 1) }

MonitorPcs == {"monitor_poll", "monitor_fetch", "monitor_remove", "monitor_symbolize"}

\* C17: monitor leaves its polling loop only when the fuzzer is not
\* running, and once the fuzzer is not running (it has exited by itself or
\* another invocation has stopped it) a monitor that is polling returns.
C17_MonitorReturnsWhenStopped ==
    /\ [][(pc[Main] = "monitor_poll" /\ pc'[Main] # "monitor_poll")
            => ~TargetRunning]_vars
    /\ (pc[Main] \in MonitorPcs /\ ~TargetRunning) ~> (pc[Main] = "done")

C17_Witness ==
    /\ Monitored(Main)
    /\ atCall[Main]
    /\ proc[Main] = "killed"
    /\ op[Other] = "stop"
    /\ "killall" \in ssh[Other]

\* The words of the command from position i on.
From(c, i) == SubSeq(c, i, Len(c))

\* C18: the command of every launch is 'run', the executable URL, one
\* '-key=value' for each option in the lexicographic order of the keys, the
\* inputs in their order and, exactly when there are pass-through
\* arguments, '--' and these arguments.
C18_CommandShape ==
    \A s \in Sessions :
        cmd[s] # <<>> =>
            LET c == cmd[s]
                o == options[s]
                n == Cardinality(DOMAIN o)
                m == Len(libfuzzer_inputs[s])
            IN  /\ Len(c) >= 2 + n + m
                /\ c[1] = <<"run">>
                /\ c[2] = <<ExecutableUrl>>
                /\ \A i \in 1 .. n :
                      /\ Len(c[2 + i]) = 4
                      /\ c[2 + i][1] = "-"
                      /\ c[2 + i][2] \in DOMAIN o
                      /\ c[2 + i][3] = "="
                      /\ c[2 + i][4] = o[c[2 + i][2]]
                /\ \A i, j \in 1 .. n :
                      i < j => Rank(c[2 + i][2]) < Rank(c[2 + j][2])
                /\ \A i \in 1 .. m :
                      c[2 + n + i] = PathWord(libfuzzer_inputs[s][i])
                /\ From(c, 3 + n + m) =
                      IF subprocess_args[s] = <<>> THEN <<>>
                      ELSE << <<"--">> >> \o subprocess_args[s]

C18_Witness ==
    /\ cmd[Main] # <<>>
    /\ op[Main] = "start"
    /\ debug[Main]
    /\ dictionary[Main]
    /\ "option1" \in DOMAIN options[Main]
    /\ subprocess_args[Main] # <<>>
    /\ Len(cmd[Main]) = 16

\* Is some word of the command an option with this key?
HasOption(c, key) ==
    \E i \in 1 .. Len(c) : Len(c[i]) = 4 /\ c[i][1] = "-" /\ c[i][2] = key

\* C19: whatever the session did before, the command of a launch in the
\* foreground has no jobs option and the command of a launch in the
\* background has jobs=1.
C19_JobsFollowsMode ==
    \A s \in Sessions :
        cmd[s] # <<>> =>
            IF foreground[s] THEN ~HasOption(cmd[s], "jobs")
            ELSE \E i \in 1 .. Len(cmd[s]) : cmd[s][i] = OptionWord("jobs", "1")

\* The position of the option with this key in the command, or 0.
OptionAt(c, key) ==
    IF HasOption(c, key)
    THEN CHOOSE i \in 1 .. Len(c) : Len(c[i]) = 4 /\ c[i][1] = "-" /\ c[i][2] = key
    ELSE 0

PkgStep(s) ==
    \/ is_resolved_call(s)
    \/ resolve(s)
    \/ ResolveCmd(s)
    \/ ResolveCheck(s)
    \/ Return(s)
NextPkg == \E s \in Sessions : PkgStep(s)
SpecPkg == Init /\ [][NextPkg]_vars

\* The coverage report of one session.
NextCov == generate_coverage_report(Main) \/ Return(Main)
SpecCov == Init /\ [][NextCov]_vars

\* The corpus entry of BUILD.gn, written by one session.
NextGn == add_corpus_to_buildfile(Main) \/ Return(Main) \/ GnCreated
SpecGn == Init /\ [][NextGn]_vars

\* ------------------------------------------------------------ C21 .. C30
\* The options a launch gets from the configuration of its own invocation:
\* the artifact prefix, those analyze sets, the dictionary of start, jobs
\* in the background, the debug options and the options of the user.
FreshOptions(s) ==
    LET own == IF op[s] = "analyze" THEN analyze_options(InitialOptions)
               ELSE InitialOptions
        dict == IF dictionary[s] /\ op[s] \in {"start", "analyze"}
                THEN Put(own, "dict", "pkg/data/fake-target1/dictionary")
                ELSE own
    IN  Update(debug_options(s, jobs_option(s, dict)), libfuzzer_opts[s])

\* The libFuzzer option words of a command: those before the '--' that
\* starts the arguments of the subprocess.
OptionWords(c) ==
    { c[i] : i \in { j \in 1 .. Len(c) :
                        /\ Len(c[j]) = 4 /\ c[j][1] = "-"
                        /\ \A k \in 1 .. j : c[k] # Word("--") } }

\* C21: the options of a launch command are exactly the artifact prefix and
\* the options implied by the configuration of that invocation; no option
\* added by an earlier invocation on the session appears in it.
C21_OptionsBuiltFresh ==
    \A s \in Sessions :
        cmd[s] # <<>> =>
            OptionWords(cmd[s]) =
                { OptionWord(k, FreshOptions(s)[k]) : k \in DOMAIN FreshOptions(s) }

\* The three options of an analysis and the values analyze gives them.
AnalyzeFixed == [jobs |-> "1", max_total_time |-> "60", print_coverage |-> "1"]

\* The command has exactly one option word with this key, with this value.
OptionIs(c, key, value) ==
    \A w \in OptionWords(c) : w[2] = key <=> w = OptionWord(key, value)

\* C22 as stated: whatever the foreground setting was and whatever options
\* the user supplied, the command of analyze carries jobs=1,
\* max_total_time=60 and print_coverage=1.
C22_AnalyzeForcesOptions_Original ==
    \A s \in Sessions :
        (op[s] = "analyze" /\ cmd[s] # <<>>) =>
            \A k \in DOMAIN AnalyzeFixed :
                OptionWord(k, AnalyzeFixed[k]) \in OptionWords(cmd[s])

\* C22: whatever the foreground setting was, analyze launches in the
\* background and its command carries each of jobs, max_total_time and
\* print_coverage exactly once: with the value the user supplied for that
\* key if there is one, else with 1, 60 and 1.
C22_AnalyzeForcesOptions ==
    \A s \in Sessions :
        (op[s] = "analyze" /\ cmd[s] # <<>>) =>
            /\ ~foreground[s]
            /\ \A k \in DOMAIN AnalyzeFixed :
                  /\ HasOption(cmd[s], k)
                  /\ OptionIs(cmd[s], k,
                              IF k \in DOMAIN libfuzzer_opts[s]
                              THEN libfuzzer_opts[s][k] ELSE AnalyzeFixed[k])

\* An analysis launched after foreground was set, with user options that
\* name jobs and max_total_time.
C22_Witness ==
    /\ op[Main] = "analyze" /\ cmd[Main] # <<>>
    /\ "jobs" \in DOMAIN libfuzzer_opts[Main]
    /\ OptionWord("max_total_time", "5") \in OptionWords(cmd[Main])
    /\ OptionWord("print_coverage", "1") \in OptionWords(cmd[Main])

\* An analysis launched without user options after foreground was set: the
\* fixed values are sent.
C22_WitnessFixed ==
    /\ op[Main] = "analyze" /\ cmd[Main] # <<>>
    /\ libfuzzer_opts[Main] = NoOptions
    /\ OptionWord("max_total_time", "60") \in OptionWords(cmd[Main])

\* The analysis of session s is in, or has gone through, its monitor part.
AnalyzeMonitoring(s) ==
    \/ pc[s] \in MonitorPcs
    \/ pc[s] = "done" /\ result[s] = "ok"

\* C23: analyze runs require-stopped, the launch, the 79 marks of the
\* progress bar, the wait and the whole monitor sequence, in that order:
\* the launch comes after the liveness check, the marks after the launch,
\* the monitor part only after all marks and after the process has ended,
\* and an analysis that fails in require-stopped or in the launch has shown
\* no mark and made no monitor step.
C23_AnalyzeOrder ==
    \A s \in Sessions :
        op[s] = "analyze" =>
            /\ cmd[s] # <<>> => "cs" \in ssh[s]
            /\ progress[s] > 0 => (cmd[s] # <<>> /\ progress[s] = ProgressSteps)
            /\ AnalyzeMonitoring(s) => (progress[s] = ProgressSteps /\ ~Alive(s))
            /\ (pc[s] = "done" /\ result[s] = "ok") =>
                  ("scp" \in ssh[s] /\ MonitorSymbolizedAll(s))
            /\ (pc[s] = "done" /\ result[s] # "ok") =>
                  /\ result[s] \in {"is running and must be stopped first",
                                    "failed to start"}
                  /\ progress[s] = 0
                  /\ "scp" \notin ssh[s]
                  /\ retrieved[s] = {} /\ symbolized[s] = <<>>

\* An analysis that has gone through all of its parts and symbolized a log.
C23_Witness ==
    /\ op[Main] = "analyze" /\ pc[Main] = "done" /\ result[Main] = "ok"
    /\ progress[Main] = ProgressSteps
    /\ symbolized[Main] # <<>>

\* An analysis whose launch failed.
C23_WitnessFailed ==
    /\ op[Main] = "analyze" /\ pc[Main] = "done"
    /\ result[Main] = "failed to start"

\* The session has made exactly one status check in its current operation
\* and pkg-status was run for it.
StatusSeen(s) == Len(pkgrec[s].checks) = 1 /\ Len(pkgrec[s].status) = 1

\* C24: when pkg-status exits with code 2, is_resolved raises no error: it
\* returns false and records no package path.
C24_NotYetResolved ==
    \A s \in Sessions :
        (op[s] = "is_resolved" /\ pc[s] = "done" /\ StatusSeen(s)
            /\ pkgrec[s].status[1].code = 2) =>
            /\ result[s] = "false"
            /\ package_path[s] = NoPath

\* is_resolved has returned after a pkg-status that exited with code 2.
C24_Witness ==
    /\ op[Main] = "is_resolved" /\ pc[Main] = "done" /\ StatusSeen(Main)
    /\ pkgrec[Main].status[1].code = 2
    /\ result[Main] = "false"

\* C25: when pkg-status exits with a code other than 0 and 2, is_resolved
\* fails with an error that carries the command line of pkg-status, and the
\* package path of the session stays unset.
C25_StatusError ==
    \A s \in Sessions :
        (op[s] = "is_resolved" /\ pc[s] = "done" /\ StatusSeen(s)
            /\ pkgrec[s].status[1].code \notin {0, 2}) =>
            /\ result[s] = "CalledProcessError"
            /\ pkgrec[s].error.cmd = <<"pkgctl", "pkg-status", PackageUrl>>
            /\ pkgrec[s].error.returncode = pkgrec[s].status[1].code
            /\ package_path[s] = NoPath
            /\ pkgrec[s].path0 = NoPath

\* is_resolved has failed after a pkg-status that exited with code 3.
C25_Witness ==
    /\ op[Main] = "is_resolved" /\ pc[Main] = "done" /\ StatusSeen(Main)
    /\ pkgrec[Main].status[1].code = 3
    /\ result[Main] = "CalledProcessError"

\* C26: resolve sends the resolve command only after a status check that
\* returned false; when resolve returns normally the package path is
\* recorded, and an is_resolved of a session with a recorded path on a
\* reachable device returns true without any command; when the status
\* check after the resolve command returns false, resolve fails with
\* 'Failed to resolve package: <package>'.
C26_Resolve ==
    \A s \in Sessions :
        /\ (op[s] = "resolve" /\ "pkg-resolve" \in ssh[s]) =>
              (pkgrec[s].checks # <<>> /\ pkgrec[s].checks[1] = "false")
        /\ (op[s] = "resolve" /\ pc[s] = "done" /\ result[s] = "ok") =>
              package_path[s] # NoPath
        /\ (op[s] = "is_resolved" /\ pc[s] = "done" /\ pkgrec[s].path0 # NoPath
              /\ pkgrec[s].reachable = <<TRUE>>) =>
              (result[s] = "true" /\ ssh[s] = {} /\ pkgrec[s].status = <<>>
                 /\ package_path[s] = pkgrec[s].path0)
        /\ (op[s] = "resolve" /\ pc[s] = "done" /\ Len(pkgrec[s].checks) = 2
              /\ pkgrec[s].checks[2] = "false") =>
              result[s] = "Failed to resolve package: fake-package1"

\* resolve has sent the command and returned with the path that pkg-status
\* printed afterwards.
C26_Witness ==
    /\ op[Main] = "resolve" /\ pc[Main] = "done" /\ result[Main] = "ok"
    /\ "pkg-resolve" \in ssh[Main]
    /\ pkgrec[Main].checks = <<"false", "true">>
    /\ package_path[Main] = OnDiskYes.path

\* resolve has failed because the package was still unresolved afterwards.
C26_WitnessFailed ==
    /\ op[Main] = "resolve" /\ pc[Main] = "done"
    /\ result[Main] = "Failed to resolve package: fake-package1"

\* is_resolved answers from the recorded path.
C26_WitnessCached ==
    /\ op[Main] = "is_resolved" /\ pc[Main] = "done"
    /\ pkgrec[Main].path0 # NoPath /\ pkgrec[Main].reachable = <<TRUE>>

\* A precondition of the coverage report fails for these inputs.
PreconditionFails(in) ==
    ~in.ssh_identity \/ ~in.addr \/ in.select_variant # "profile"

\* The error of the first precondition that fails.
PreconditionError(in) ==
    IF ~in.ssh_identity THEN "Unable to determine ssh identity."
    ELSE IF ~in.addr THEN "Unable to determine device address."
    ELSE "Not built with profile variant."

\* The steps that touch a corpus or build the report.
WorkSteps ==
    {"add_from_gcs", "add_from_host", "isdir", "mkdir", "testsharder",
     "testrunner", "symbolize", "covargs"}

\* C27: when the ssh identity or the device address is missing, or the
\* build does not select the profile variant, generate_coverage_report ends
\* with the error of that precondition and has neither pulled nor pushed a
\* corpus nor run the test sharder, the test runner, the symbolizer or
\* covargs; the realm label is as it was.
C27_CoverageFailsFast ==
    (cov.called /\ PreconditionFails(cov.input)) =>
        /\ cov.result = PreconditionError(cov.input)
        /\ \A i \in 1 .. Len(cov.steps) : cov.steps[i] \notin WorkSteps
        /\ cov.realm_label = ""

\* A report asked for with a corpus from clusterfuzz and local directories
\* on a build without the profile variant.
C27_Witness ==
    /\ cov.called
    /\ cov.input.ssh_identity /\ cov.input.addr
    /\ cov.input.select_variant = "asan"
    /\ ~cov.input.local /\ cov.input.input_dirs # <<>>
    /\ cov.result = "Not built with profile variant."

\* A report that was generated.
C27_WitnessReport ==
    /\ cov.called /\ cov.result = "ok"
    /\ cov.steps[Len(cov.steps)] = "echo"
    /\ "add_from_gcs" \in { cov.steps[i] : i \in 1 .. Len(cov.steps) }

\* Some line of the file contains the declaration of the fuzzer target.
DeclaresTarget(file) == \E i \in 1 .. Len(file.lines) : file.lines[i].target

\* add_corpus_to_buildfile cannot register the corpus.
CannotRegister ==
    gn.generated \/ ~gn.isfile \/ ~DeclaresTarget(gn.before)

\* C28: when the label is generated, BUILD.gn is not a file or no line of
\* it declares the fuzzer target, add_corpus_to_buildfile returns False,
\* echoes a message and does not write BUILD.gn.
C28_BuildfileUntouched ==
    (gn.called /\ CannotRegister) =>
        /\ ~gn.value
        /\ gn.echoed # <<>>
        /\ ~gn.wrote
        /\ gn.after = gn.before

\* A BUILD.gn with lines, a corpus entry and a line with trailing space but
\* without the target of the fuzzer: nothing is written.
C28_Witness ==
    /\ gn.called /\ ~gn.generated /\ gn.isfile
    /\ ~DeclaresTarget(gn.before)
    /\ \E i \in 1 .. Len(gn.before.lines) : gn.before.lines[i] = GnOldCorpus
    /\ \E i \in 1 .. Len(gn.before.lines) : gn.before.lines[i] = GnSources
    /\ gn.echoed = <<"Unable to find '", FuzzerTarget, "' in ", BuildGn>>

\* The corpus was registered.
C28_WitnessWritten ==
    /\ gn.called /\ gn.value /\ gn.wrote
    /\ gn.before.lines = <<GnTarget, GnSources, GnOldCorpus, GnClose>>
    /\ gn.after.lines =
          <<GnTarget, rstrip(GnSources), GnCorpus(0, <<"relative/path">>), GnClose>>

\* C29: when symbolize_log is called a second time on the session with the
\* same lines and the same job index, the symbolizer and the device
\* answering as before, the log holds after the second call exactly what
\* it held after the first; the output directory has the same logs, the
\* log base and the last known pid of the session are as they were, and
\* fuzz-latest.log refers to the log.
C29_SymbolizeTwice ==
    symprev.called =>
        /\ LastLog = symprev.log
        /\ LogContent = symprev.content
        /\ symrec.out = symprev.content
        /\ outFiles = symprev.outFiles
        /\ logbase[symrec.session] = symprev.logbase
        /\ last_known_pid[symrec.session] = symprev.last_known_pid
        /\ latest = symprev.log

\* A second call on lines with a pid, a crash and an artifact, whose log is
\* not empty.
C29_Witness ==
    /\ symprev.called
    /\ symrec.dumps # <<>>
    /\ symrec.fetched # <<>>
    /\ symprev.content # <<>>
    /\ symprev.last_known_pid = 1

\* The positions of the wait loop of a background launch.
WaitPcs == {"bg_poll", "bg_ls"}

\* C30: the wait of a background launch ends, with a success or with
\* 'failed to start', also when the process neither exits nor creates a
\* log: a launch that has entered its wait loop leaves it.
C30_LaunchWaitEnds ==
    (pc[Main] \in WaitPcs) ~> (pc[Main] \notin WaitPcs)

\* ------------------------------------------------------------ C31 .. C40
\* Session s has launched its process in the foreground by start.
FgStarted(s) == op[s] = "start" /\ cmd[s] # <<>> /\ foreground[s]

\* C31: a start in the foreground returns only when the process has ended
\* and its error stream has been symbolized as job 0 with echo; it never
\* polls or lists the remote logs and never ends with 'failed to start'.
C31_ForegroundBlocks ==
    \A s \in Sessions :
        FgStarted(s) =>
            /\ pc[s] \in {"fg_symbolize", "done"}
            /\ "ls" \notin ssh[s]
            /\ pc[s] = "done" =>
                  /\ ~Alive(s)
                  /\ result[s] = "ok"
                  /\ symrec.called /\ symrec.session = s
                  /\ symrec.job_num = 0 /\ symrec.echo
                  /\ LastLog \in written[s]

\* A foreground start has returned after a process that printed a line.
C31_Witness ==
    /\ FgStarted(Main) /\ pc[Main] = "done"
    /\ symrec.fd_in # <<>>
    /\ proc[Main] \in {"exit0", "exit1"}

\* The pid of the last pid marker before the first mutation-sequence line
\* of the stream, or 0.
PidBeforeMutation(lines) ==
    LastPid(SubSeq(lines, 1, FirstMutation(lines) - 1))

\* C32: the dump fetched at the first mutation-sequence line is for the pid
\* of the latest pid marker before it when that pid is positive; when there
\* was none, or it was 0, guess_pid is asked and its answer is used;
\* guess_pid is asked at the first mutation-sequence line only, so at most
\* once in a call and not at all when a positive pid was seen before.
C32_PidForDump ==
    (symrec.called /\ FirstMutation(symrec.fd_in) > 0) =>
        LET p == PidBeforeMutation(symrec.fd_in)
        IN  /\ symrec.dumps # <<>>
            /\ IF p > 0
               THEN symrec.dumps[1] = p /\ symrec.guesses = <<>>
               ELSE Len(symrec.guesses) = 1 /\ symrec.dumps[1] = symrec.guesses[1]

\* The stream has a pid marker after its first mutation-sequence line.
LatePidMarker(lines) ==
    /\ FirstMutation(lines) > 0
    /\ \E j \in FirstMutation(lines) + 1 .. Len(lines) :
           pid_pattern(lines[j]) # {}

\* C33: when a pid marker follows the first mutation-sequence line, the
\* call leaves that pid as the last known pid, and still fetches exactly
\* one dump, for the pid chosen at the first mutation-sequence line, and
\* splices exactly the symbolizer's answer to it before that line.
C33_LatePidMarker ==
    (symrec.called /\ LatePidMarker(symrec.fd_in)) =>
        LET lines == symrec.fd_in
            i == FirstMutation(lines)
            p == PidBeforeMutation(lines)
        IN  /\ last_known_pid[symrec.session] = LastPid(lines)
            /\ Len(symrec.dumps) = 1
            /\ symrec.dumps[1] = (IF p > 0 THEN p ELSE symrec.guesses[1])
            /\ symrec.out = Flatten(SubSeq(lines, 1, i - 1))
                              \o symrec.texts[1]
                              \o Flatten(SubSeq(lines, i, Len(lines)))

\* C33, where the symbolizer's first answer is not empty.
C33_LatePidMarkerNonEmpty ==
    (symrec.called /\ symrec.texts # <<>> /\ symrec.texts[1] # <<>>)
        => C33_LatePidMarker

\* The texts symbolize_log writes to the file for a stream whose first
\* mutation-sequence line is line i: every line in order, and the symbol
\* text immediately before line i.
SplicedWrites(lines, i, text) ==
    SubSeq(lines, 1, i - 1) \o <<text>> \o SubSeq(lines, i, Len(lines))

\* C34: with echo set, the texts echoed are the texts written to the file,
\* each stripped: every line of the stream in order, with the symbol text
\* immediately before the first mutation-sequence line; with echo unset
\* nothing is echoed and the same texts are written.
C34_EchoIsFile ==
    symrec.called =>
        LET lines == symrec.fd_in
            i == FirstMutation(lines)
            expected == IF i = 0 THEN lines
                        ELSE SplicedWrites(lines, i, symrec.texts[1])
        IN  /\ symrec.writes = expected
            /\ symrec.out = Flatten(expected)
            /\ symrec.echoed =
                  IF symrec.echo
                  THEN [k \in 1 .. Len(expected) |-> Strip(expected[k])]
                  ELSE <<>>

\* The part of C34 that relates the echo to the file: what is echoed is
\* what is written, piece by piece and stripped, or nothing.
C34_EchoMatchesWrites ==
    symrec.called =>
        /\ symrec.out = Flatten(symrec.writes)
        /\ symrec.echoed =
              IF symrec.echo
              THEN [k \in 1 .. Len(symrec.writes) |-> Strip(symrec.writes[k])]
              ELSE <<>>

\* The first line of a BUILD.gn that declares the target of the fuzzer,
\* or 0.
GnDecl(lines) ==
    LET hits == { i \in 1 .. Len(lines) : lines[i].target }
    IN  IF hits = {} THEN 0 ELSE CHOOSE i \in hits : \A j \in hits : i <= j

\* The braces left open by lines d .. j.
RECURSIVE GnDepth(_, _, _)
GnDepth(lines, d, j) ==
    IF j < d THEN 0
    ELSE GnDepth(lines, d, j - 1) + lines[j].open - lines[j].close

\* The line that closes the scope of the target declared on line
\* GnDecl(lines), or 0.
GnCloseAt(lines) ==
    LET d == GnDecl(lines)
        hits == { j \in d .. Len(lines) : d > 0 /\ GnDepth(lines, d, j) = 0 }
    IN  IF hits = {} THEN 0 ELSE CHOOSE j \in hits : \A i \in hits : j <= i

\* The lines of seq whose index is in K, in order.
Keep(seq, K) ==
    LET F[i \in 0 .. Len(seq)] ==
            IF i = 0 THEN <<>>
            ELSE IF i \in K THEN Append(F[i - 1], seq[i]) ELSE F[i - 1]
    IN  F[Len(seq)]

\* BUILD.gn declares the target of the fuzzer and closes its scope.
TargetFound(file) == GnDecl(file.lines) > 0 /\ GnCloseAt(file.lines) > 0

\* C35: when BUILD.gn declares the fuzzer target, add_corpus_to_buildfile
\* returns True and writes the file; afterwards the scope of the target,
\* from its declaration to the line closing it, has exactly one corpus
\* line, 'corpus = "<dir>"' for the directory of the call, immediately
\* before the closing line; the corpus lines that scope had are gone and
\* every other line is kept, in order (without its trailing blanks).
C35_CorpusRegistered ==
    (gn.called /\ ~gn.generated /\ gn.isfile /\ TargetFound(gn.before)) =>
        LET before == [i \in 1 .. Len(gn.before.lines) |->
                          rstrip(gn.before.lines[i])]
            after == gn.after.lines
            old == { i \in GnDecl(before) .. GnCloseAt(before) : before[i].corpus }
            d == GnDecl(after)
            c == GnCloseAt(after)
        IN  /\ gn.value /\ gn.wrote
            /\ d > 0 /\ c > d + 1
            /\ { i \in d .. c : after[i].corpus } = {c - 1}
            /\ after[c - 1].text = <<"corpus = \"">> \o gn.dir \o <<"\"">>
            /\ Keep(after, (1 .. Len(after)) \ {c - 1})
                  = Keep(before, (1 .. Len(before)) \ old)

\* C35, for a target whose scope is closed on a later line than the one
\* that declares it.
C35_CorpusRegisteredLater ==
    (GnCloseAt(gn.before.lines) > GnDecl(gn.before.lines))
        => C35_CorpusRegistered

\* repro was called on session s with no units.
ReproNoUnits(s) == op[s] = "repro" /\ libfuzzer_inputs[s] = <<>>

\* C36: repro called with no units has failed with 'No units provided.'
\* without any command sent to the device (no liveness check, no store,
\* no launch) and without a command line built; the step that fails leaves
\* the foreground flag and the options of the session as they were.
C36_ReproNoUnits ==
    /\ [](\A s \in Sessions :
             ReproNoUnits(s) =>
                 /\ pc[s] = "done"
                 /\ result[s] = "No units provided."
                 /\ ssh[s] = {}
                 /\ cmd[s] = <<>>)
    /\ [][\A s \in Sessions :
             ReproNoUnits(s)' /\ op[s] # "repro" =>
                 /\ foreground'[s] = foreground[s]
                 /\ options'[s] = options[s]
                 /\ libfuzzer_inputs'[s] = libfuzzer_inputs[s]
                 /\ urls'[s] = urls[s]]_vars

\* repro has failed for want of units while the target was running and the
\* session was in the background.
C36_Witness ==
    /\ ReproNoUnits(Main) /\ pc[Main] = "done"
    /\ result[Main] = "No units provided."
    /\ atCall[Main] /\ ~foreground[Main]

\* str.format: the pieces of a template, each '{}' of it replaced by the
\* next argument.
RECURSIVE format(_, _)
format(template, args) ==
    IF template = <<>> THEN <<>>
    ELSE IF Head(template) = "{}" /\ args # <<>>
    THEN <<Head(args)>> \o format(Tail(template), Tail(args))
    ELSE <<Head(template)>> \o format(Tail(template), args)

\* The first of the paths that is not a directory, "" if all are.
RECURSIVE Offending(_)
Offending(input_dirs) ==
    IF input_dirs = <<>> THEN ""
    ELSE IF Head(input_dirs) # "corpus-dir" THEN Head(input_dirs)
    ELSE Offending(Tail(input_dirs))

\* The steps that build the report.
ReportWork == {"mkdir", "testsharder", "testrunner", "symbolize", "covargs"}

\* generate_coverage_report has reached the loop over input_dirs (the
\* preconditions hold and the fuzzer is a test, so that its realm label
\* can be set) and one of the paths is not a directory.
NotADirectoryGiven ==
    /\ cov.called /\ ~PreconditionFails(cov.input) /\ cov.input.is_test
    /\ Offending(cov.input.input_dirs) # ""

\* C37: generate_coverage_report given a path that is not a directory ends
\* with an error, before any report step, whose message names that path:
\* it is the template with the path in the place of '{}'.
C37_NotADirectoryNamed ==
    NotADirectoryGiven =>
        /\ cov.result \notin {"ok", "none"}
        /\ \A i \in 1 .. Len(cov.steps) : cov.steps[i] \notin ReportWork
        /\ cov.message
              = format(NotADirectoryPieces, <<Offending(cov.input.input_dirs)>>)

\* The part of C37 that holds: the call is aborted with the error, before
\* any report step.
C37_NotADirectoryAborts ==
    NotADirectoryGiven =>
        /\ cov.result = NotADirectory
        /\ \A i \in 1 .. Len(cov.steps) : cov.steps[i] \notin ReportWork

\* A line of the stream reports a pid.
HasPidMarker(lines) == \E i \in 1 .. Len(lines) : pid_pattern(lines[i]) # {}

\* C38: every launch sets the last known pid of the session to 0; any
\* other change of it is made by a symbolize_log call of the session and
\* sets it to the pid of the last pid marker of the lines symbolized,
\* never to a guessed pid; so the process of repro is symbolized with the
\* last known pid 0, and the pid that repro dumps after an unclean exit is
\* the last one reported by the output of the process it launched or,
\* when that reported none above 0, the guessed one.
C38_LastKnownPid ==
    /\ [][\A s \in Sessions :
             /\ (pc[s] = "launch" /\ pc'[s] # "launch")
                   => last_known_pid'[s] = 0
             /\ (pc[s] # "launch" /\ last_known_pid'[s] # last_known_pid[s])
                   => /\ symrec'.called /\ symrec'.session = s
                      /\ HasPidMarker(symrec'.fd_in)
                      /\ last_known_pid'[s] = LastPid(symrec'.fd_in)
                      /\ last_known_pid'[s] \notin GuessPids]_vars
    /\ [](\A s \in Sessions :
             /\ pc[s] \in {"repro_symbolize", "fg_symbolize"}
                   => last_known_pid[s] = 0
             /\ repro_dump[s] # <<>>
                   => /\ symrec.called /\ symrec.session = s
                      /\ repro_dump[s][1]
                            \in IF LastPid(symrec.fd_in) > 0
                                THEN {LastPid(symrec.fd_in)}
                                ELSE GuessPids)

\* The process launched by repro wrote a log, reported no pid and exited
\* uncleanly: the last known pid is the 0 of the launch and the dump is of
\* the guessed pid.
C38_Witness ==
    /\ ReproRan(Main)
    /\ repro_dump[Main] = <<9>>
    /\ symrec.guesses = <<>>
    /\ last_known_pid[Main] = 0
    /\ written[Main] # {}

\* Session s is in a start call, made by the user or by analyze.
InStart(s) == op[s] \in {"start", "analyze"}

\* C39: in a start call the removal of the remote logs is made after
\* require_stopped has found the fuzzer stopped and before the launch;
\* from the removal on, none of the logs that were there before it is
\* there, so a log that is there was created after it; and a background
\* launch with no log created since the removal has failed to start.
C39_LogsRemovedBeforeLaunch ==
    \A s \in Sessions :
        InStart(s) =>
            /\ pc[s] = "start_remove" => ssh[s] = {"cs"} /\ urls[s] = "no"
            /\ "run" \in ssh[s] => "rm" \in ssh[s]
            /\ "rm" \in ssh[s] =>
                  /\ "cs" \in ssh[s]
                  /\ stale.left = {}
                  /\ remoteLogs # {} => stale.fresh
            /\ (pc[s] = "done" /\ "run" \in ssh[s] /\ ~foreground[s]
                  /\ ~stale.fresh) => result[s] = "failed to start"

\* An earlier run had left a log; the process launched by start exited
\* without a log: the launch has failed to start.
C39_Witness ==
    /\ op[Main] = "start" /\ pc[Main] = "done"
    /\ stale.removed # {}
    /\ ~stale.fresh /\ wrote[Main] = 0
    /\ "run" \in ssh[Main] /\ ~Alive(Main)
    /\ result[Main] = "failed to start"

\* The runs of verify_runtime_deps.py.
NextDeps == VerifyRuntimeDeps
SpecDeps == Init /\ [][NextDeps]_vars

\* The atom of the library and the atoms it depends on.
PackageAtoms(manifest) ==
    LET atom == find_atom(manifest, manifest.ids[1])
    IN  {atom} \cup { a \in manifest.atoms :
                        \E i \in 1 .. Len(atom.deps) : atom.deps[i] = a.id }

\* The path is that of a source of the atom of the library or of one of
\* the atoms it depends on.
Packaged(path, manifest) ==
    \E a \in PackageAtoms(manifest) :
        \E file \in a.files : normpath(file.source) = normpath(path)

\* Every runtime file that is not a sysroot library is packaged, under its
\* own path or with ".impl" appended.
AllPackaged(runtime_files, manifest) ==
    \A i \in 1 .. Len(runtime_files) :
        \/ basename(runtime_files[i]) \in SYSROOT_LIBS
        \/ Packaged(runtime_files[i], manifest)
        \/ Packaged(with_impl(runtime_files[i]), manifest)

\* C40: the verifier writes the stamp, and exits with status 0, exactly
\* when every runtime file that is not a sysroot library is a source of
\* the atom of the library or of one of its dependencies, under its own
\* path or with ".impl" appended; otherwise it exits with status 1 and
\* writes no stamp.
C40_StampIffPackaged ==
    rtdeps.called =>
        IF AllPackaged(rtdeps.runtime_files, rtdeps.manifest)
        THEN rtdeps.stamp /\ rtdeps.status = 0
        ELSE ~rtdeps.stamp /\ rtdeps.status = 1

\* C40, for runtime files written without a leading "./".
C40_StampIffPackagedNormalized ==
    (\A i \in 1 .. Len(rtdeps.runtime_files) : ~rtdeps.runtime_files[i].dot)
        => C40_StampIffPackaged

====
